---- MODULE Spec2Model ----
(***************************************************************************)
(* Model of the adaptive preference-elicitation engine of                  *)
(* "Decisive decision app.py": BayesianUBC_Engine (question loop, phase    *)
(* controller, orthogonal generator, block cache, counterfactual step,     *)
(* heuristic updaters, convergence monitor), request_R_design (design      *)
(* oracle adapter) and the strategy selection of DecisionApp.run.          *)
(*                                                                         *)
(* Numbers.  The program works on Python floats.  Here a belief mean is an *)
(* integer number of tenths (0.2 is 2, the clamp bounds -2.0 and 2.0 are   *)
(* -20 and 20) and a variance is an integer number of millionths (0.01 is  *)
(* 10000, 10.0 is 10000000); a product v * 0.9 is (v * 9) \div 10.  The    *)
(* average prior variance handed to the strategy selection is in           *)
(* millionths too (0.75 is 750000, 2.0 is 2000000).                        *)
(*                                                                         *)
(* Values.  A profile is the tuple of the level indices it gives to the    *)
(* criteria 1..3; Python's None is the empty tuple.                        *)
(***************************************************************************)
EXTENDS Integers, Sequences, FiniteSets, TLC

VARIABLES
    \* ---- BayesianUBC_Engine fields
    criteria_levels,                      \* tuple: number of levels of each criterion
    utilities,                            \* [criterion -> [level index -> [mean, variance]]]
    orthogonal_fallback_pair_idx_counter,
    initial_strategy,
    initial_block_size_cea,
    MAX_PYTHON_ORTHO_CF_QUESTIONS,
    initial_questions_done,
    cea_block_cache,
    cea_block_cache_idx,
    question_count,
    session_history,
    r_idefix_consecutive_failures,
    \* ---- locals of run_elicitation_session that live across a prompt
    pc,                                   \* position of the program
    profile_a,
    profile_b,
    perform_counterfactual_this_turn,
    cf_plan,                              \* the counterfactual question on display
    \* ---- locals of DecisionApp.run
    prior_quality_indicator,
    avg_prior_variance,
    \* ---- the design oracle, as seen at the adapter
    oracle_mode,                          \* mode of the last request_R_design call
    oracle_reply,                         \* what the R process answered to it
    oracle_result,                        \* what request_R_design returned for it
    \* ---- observation of the run: one record per loop iteration
    turn_log,
    \* ---- DecisionApp and UserProfileHBM
    app_pc,                               \* position of DecisionApp.run around the session
    user_profile,                         \* UserProfileHBM.data
    profile_file,                         \* content of the profile file
    recommendation_delivered,             \* _provide_recommendation was called
    \* ---- observation of the reconciliation
    reconciler_runs,                      \* calls of run_mcmc_model_in_background
    inference_calls,                      \* calls of pm.sample
    saves,                                \* calls of UserProfileHBM.save
    \* ---- observation of the session
    start_utilities,                      \* the beliefs the engine was built with
    loaded_file,                          \* the profile file as DecisionApp.__init__ found it
    \* ---- several DecisionApp objects of one user id, each with its own
    \* ---- UserProfileHBM over the same file
    instances,
    returned                              \* values returned by a function called on its own

vars == << criteria_levels, utilities, orthogonal_fallback_pair_idx_counter,
           initial_strategy, initial_block_size_cea, MAX_PYTHON_ORTHO_CF_QUESTIONS,
           initial_questions_done, cea_block_cache, cea_block_cache_idx,
           question_count, session_history, r_idefix_consecutive_failures,
           pc, profile_a, profile_b, perform_counterfactual_this_turn, cf_plan,
           prior_quality_indicator, avg_prior_variance,
           oracle_mode, oracle_reply, oracle_result, turn_log,
           app_pc, user_profile, profile_file, recommendation_delivered,
           reconciler_runs, inference_calls, saves, start_utilities, loaded_file, instances,
               returned >>

\* what the question loop and the functions it calls never write
tail_vars == << app_pc, user_profile, profile_file, recommendation_delivered,
               reconciler_runs, inference_calls, saves, start_utilities, loaded_file, instances,
               returned >>

oracle_vars == << oracle_mode, oracle_reply, oracle_result >>

app_vars == << prior_quality_indicator, avg_prior_variance >>

-----------------------------------------------------------------------------
(* Units and elementary helpers *)

None == << >>

Max(a, b) == IF a >= b THEN a ELSE b

Min(a, b) == IF a <= b THEN a ELSE b

\* v * (num / den) on the fixed-point grid of the variances
Scaled(v, num, den) == (v * num) \div den

\* one variance unit (1.0) in millionths
VarUnit == 1000 * 1000

\* clamp bounds of a mean, in tenths: max(-2.0, min(2.0, mean))
MEAN_MIN == -20

MEAN_MAX == 20

\* floor of a variance, in millionths: max(0.01, variance)
VAR_FLOOR == 10000

Belief(m, v) == [mean |-> m, variance |-> v]

RECURSIVE SeqSum(_)
SeqSum(s) == IF s = << >> THEN 0 ELSE Head(s) + SeqSum(Tail(s))

Criteria(cl) == 1 .. Len(cl)

Levels(cl, c) == 0 .. (cl[c] - 1)

\* "crit in self.utilities and lvl in self.utilities[crit]"
HasBelief(u, c, l) == c \in DOMAIN u /\ l \in DOMAIN u[c]

-----------------------------------------------------------------------------
(* BayesianUBC_Engine._update_utilities_simplified *)

\* the chosen level loses what the source has it gain
ChosenUpdate_Loses(b) ==
    Belief(b.mean - 2, Max(VAR_FLOOR, Scaled(b.variance, 9, 10)))

\* the belief of a level of the chosen profile after the main choice
ChosenUpdate(b) ==
    Belief(b.mean + 2, Max(VAR_FLOOR, Scaled(b.variance, 9, 10)))

\* the rejected level losing mean but keeping its variance
UnchosenUpdate_KeepsVariance(b) == Belief(b.mean - 1, b.variance)

\* the belief of a contrasted level of the rejected profile after the main choice
UnchosenUpdate(b) ==
    Belief(b.mean - 1, Max(VAR_FLOOR, Scaled(b.variance, 19, 20)))

\* The first loop touches the level each criterion has on the chosen profile,
\* the second the level it has on the other profile when that level differs;
\* no belief is touched by both loops.
update_utilities_simplified(u, chosen, unchosen) ==
    [c \in DOMAIN u |->
        [l \in DOMAIN u[c] |->
            IF c \in DOMAIN chosen /\ chosen[c] = l
            THEN ChosenUpdate(u[c][l])
            ELSE IF /\ c \in DOMAIN unchosen
                    /\ unchosen[c] = l
                    /\ c \in DOMAIN chosen
                    /\ chosen[c] # l
                 THEN UnchosenUpdate(u[c][l])
                 ELSE u[c][l]]]

-----------------------------------------------------------------------------
(* BayesianUBC_Engine._check_convergence *)

RECURSIVE LevelVariances(_, _)
LevelVariances(row, l) ==
    IF l \notin DOMAIN row THEN << >>
    ELSE << row[l].variance >> \o LevelVariances(row, l + 1)

RECURSIVE AllVariances(_, _)
AllVariances(u, c) ==
    IF c \notin DOMAIN u THEN << >>
    ELSE LevelVariances(u[c], 0) \o AllVariances(u, c + 1)

\* the test with <= where the source has <
check_convergence_AtThreshold(u) ==
    LET all_level_data == AllVariances(u, 1)
    IN  IF Len(all_level_data) = 0 THEN FALSE
        ELSE SeqSum(all_level_data) <= Len(all_level_data) * VarUnit

\* avg_variance < 1.0, with avg_variance = total_variance / num_levels
check_convergence(u) ==
    LET all_level_data == AllVariances(u, 1)
        num_levels     == Len(all_level_data)
        total_variance == SeqSum(all_level_data)
    IN  IF num_levels = 0 THEN FALSE
        ELSE total_variance < num_levels * VarUnit

-----------------------------------------------------------------------------
(* BayesianUBC_Engine._get_python_orthogonal_pair *)

\* the array with its first row in the place of the fifth
L9_PROFILES_FirstRowTwice ==
    << <<0,0,0>>, <<0,1,1>>, <<0,2,2>>, <<1,0,1>>, <<0,0,0>>,
       <<1,2,0>>, <<2,0,2>>, <<2,1,0>>, <<2,2,1>> >>

L9_PROFILES ==
    << <<0,0,0>>, <<0,1,1>>, <<0,2,2>>, <<1,0,1>>, <<1,1,2>>,
       <<1,2,0>>, <<2,0,2>>, <<2,1,0>>, <<2,2,1>> >>

\* the pairs with row 4 a second time where the source has row 7
ORTHOGONAL_PAIRS_INDICES_WithoutRowSeven ==
    << <<0,4>>, <<1,5>>, <<2,6>>, <<3,8>>, <<0,4>>,
       <<1,3>>, <<2,5>>, <<4,8>>, <<6,0>> >>

\* row numbers count from 0, as in the source
ORTHOGONAL_PAIRS_INDICES ==
    << <<0,4>>, <<1,5>>, <<2,6>>, <<3,8>>, <<0,7>>,
       <<1,3>>, <<2,5>>, <<4,8>>, <<6,0>> >>

\* the modulus one short of the number of pairs
MAX_ORTHOGONAL_FALLBACK_TOTAL_OneShort == Len(ORTHOGONAL_PAIRS_INDICES) - 1

MAX_ORTHOGONAL_FALLBACK_TOTAL == Len(ORTHOGONAL_PAIRS_INDICES)

ValidConfiguration(cl) == Len(cl) = 3 /\ \A c \in 1..Len(cl) : cl[c] = 3

\* [a, b, counter]: the pair (None, None with the counter untouched when the
\* configuration is not 3 x 3) and the counter after the call
get_python_orthogonal_pair(cl, counter) ==
    IF ~ValidConfiguration(cl)
    THEN [a |-> None, b |-> None, counter |-> counter]
    ELSE LET pair_definition_indices ==
                 ORTHOGONAL_PAIRS_INDICES[(counter % MAX_ORTHOGONAL_FALLBACK_TOTAL) + 1]
         IN  [a |-> L9_PROFILES[pair_definition_indices[1] + 1],
              b |-> L9_PROFILES[pair_definition_indices[2] + 1],
              counter |-> counter + 1]

-----------------------------------------------------------------------------
(* BayesianUBC_Engine._find_most_uncertain_level *)

\* the criteria of the profile whose level on it is a defined level with a belief
UncertainCandidates(u, cl, profile) ==
    { c \in DOMAIN u :
        /\ c \in DOMAIN profile
        /\ c \in DOMAIN cl
        /\ cl[c] > 0
        /\ profile[c] \in Levels(cl, c)
        /\ profile[c] \in DOMAIN u[c] }

\* the sort taking the last of the largest where the source takes the first
find_most_uncertain_level_LastOfLargest(u, cl, profile) ==
    LET uncertain_levels == UncertainCandidates(u, cl, profile)
    IN  IF uncertain_levels = {}
        THEN IF profile # None /\ 1 \in DOMAIN cl /\ profile[1] \in Levels(cl, 1)
             THEN [crit |-> 1, idx |-> profile[1]]
             ELSE [crit |-> 0, idx |-> -1]
        ELSE LET best == CHOOSE c \in uncertain_levels :
                            \A d \in uncertain_levels :
                                \/ u[c][profile[c]].variance > u[d][profile[d]].variance
                                \/ /\ u[c][profile[c]].variance = u[d][profile[d]].variance
                                   /\ c >= d
             IN  [crit |-> best, idx |-> profile[best]]

\* [crit, idx]; crit = 0 stands for (None, None, -1).  The candidates are
\* collected in the order of the belief store and sorted by variance,
\* descending, with a stable sort: the first of the largest is taken.
find_most_uncertain_level(u, cl, profile) ==
    LET uncertain_levels == UncertainCandidates(u, cl, profile)
    IN  IF uncertain_levels = {}
        THEN IF /\ profile # None
                /\ 1 \in DOMAIN cl
                /\ profile[1] \in Levels(cl, 1)
             THEN [crit |-> 1, idx |-> profile[1]]
             ELSE [crit |-> 0, idx |-> -1]
        ELSE LET best == CHOOSE c \in uncertain_levels :
                            \A d \in uncertain_levels :
                                \/ u[c][profile[c]].variance > u[d][profile[d]].variance
                                \/ /\ u[c][profile[c]].variance = u[d][profile[d]].variance
                                   /\ c <= d
             IN  [crit |-> best, idx |-> profile[best]]

-----------------------------------------------------------------------------
(* BayesianUBC_Engine._ask_and_process_counterfactual, up to its prompt *)

\* the transition that goes round: 0 -> 1, 1 -> 2, 2 -> 0
TableIndex_Cyclic(original_level_idx) ==
    CASE original_level_idx = 0 -> 1
      [] original_level_idx = 1 -> 2
      [] original_level_idx = 2 -> 0
      [] OTHER -> -1

\* the index transition 0 -> 1, 1 -> 2, 2 -> 1, and -1 for any other index
TableIndex(original_level_idx) ==
    CASE original_level_idx = 0 -> 1
      [] original_level_idx = 1 -> 2
      [] original_level_idx = 2 -> 1
      [] OTHER -> -1

\* the first index of 0 .. n-1 other than the original one; the original one
\* when there is none
FirstOtherIndex(original_level_idx, n) ==
    LET others == { i \in 0 .. (n - 1) : i # original_level_idx }
    IN  IF others = {} THEN original_level_idx
        ELSE CHOOSE i \in others : \A j \in others : i <= j

improved_level_index(original_level_idx, n) ==
    LET improved_level_idx == TableIndex(original_level_idx)
    IN  IF \/ ~(0 <= improved_level_idx /\ improved_level_idx < n)
           \/ improved_level_idx = original_level_idx
        THEN FirstOtherIndex(original_level_idx, n)
        ELSE improved_level_idx

NoPlan == [skip |-> TRUE, crit |-> 0, original |-> -1, improved |-> -1]

\* the plan that asks even when the modified profile is the chosen one
counterfactual_plan_AsksIdentical(u, cl, chosen_profile_main, rejected_profile_main) ==
    LET target == find_most_uncertain_level(u, cl, rejected_profile_main)
    IN  IF target.crit = 0
        THEN NoPlan
        ELSE IF cl[target.crit] # 3
        THEN NoPlan
        ELSE LET improved == improved_level_index(target.idx, cl[target.crit])
             IN  IF improved = target.idx THEN NoPlan
                 ELSE [skip |-> FALSE, crit |-> target.crit,
                       original |-> target.idx, improved |-> improved]

\* [skip, crit, original, improved]: the counterfactual question to ask, or
\* skip = TRUE when the method returns before asking
counterfactual_plan(u, cl, chosen_profile_main, rejected_profile_main) ==
    LET target == find_most_uncertain_level(u, cl, rejected_profile_main)
    IN  IF target.crit = 0
        THEN NoPlan      \* empty profile, or its first level is not a defined one
        ELSE IF cl[target.crit] # 3
        THEN NoPlan
        ELSE LET improved == improved_level_index(target.idx, cl[target.crit])
                 modified_rejected_profile ==
                     [rejected_profile_main EXCEPT ![target.crit] = improved]
             IN  IF improved = target.idx THEN NoPlan
                 ELSE IF modified_rejected_profile = chosen_profile_main THEN NoPlan
                 ELSE [skip |-> FALSE, crit |-> target.crit,
                       original |-> target.idx, improved |-> improved]

-----------------------------------------------------------------------------
(* BayesianUBC_Engine._update_utilities_from_counterfactual *)

ClampBelief(b) ==
    Belief(Max(MEAN_MIN, Min(MEAN_MAX, b.mean)), Max(VAR_FLOOR, b.variance))

\* the improved level of an unswitched answer with a wider variance
CFImproved_Widens(b, user_switched) ==
    IF user_switched
    THEN Belief(Min(MEAN_MAX, b.mean + 5), Max(VAR_FLOOR, Scaled(b.variance, 6, 10)))
    ELSE Belief(Max(MEAN_MIN, b.mean - 2), Max(VAR_FLOOR, Scaled(b.variance, 13, 10)))

CFImproved(b, user_switched) ==
    IF user_switched
    THEN Belief(Min(MEAN_MAX, b.mean + 5), Max(VAR_FLOOR, Scaled(b.variance, 6, 10)))
    ELSE Belief(Max(MEAN_MIN, b.mean - 2), Max(VAR_FLOOR, Scaled(b.variance, 7, 10)))

CFOriginal(b, user_switched) ==
    IF user_switched
    THEN Belief(Max(MEAN_MIN, b.mean - 3), Max(VAR_FLOOR, Scaled(b.variance, 8, 10)))
    ELSE Belief(Max(MEAN_MIN, b.mean - 1), b.variance)

update_utilities_from_counterfactual(u, criterion_changed, original_level, improved_level, user_switched) ==
    IF \/ ~HasBelief(u, criterion_changed, original_level)
       \/ ~HasBelief(u, criterion_changed, improved_level)
    THEN u
    ELSE [c \in DOMAIN u |->
            [l \in DOMAIN u[c] |->
                ClampBelief(
                    IF c = criterion_changed /\ l = improved_level
                    THEN CFImproved(u[c][l], user_switched)
                    ELSE IF c = criterion_changed /\ l = original_level
                    THEN CFOriginal(u[c][l], user_switched)
                    ELSE u[c][l])]]

-----------------------------------------------------------------------------
(* request_R_design: the design oracle adapter *)

\* What the R process did with a request.  launch: the subprocess ran, could
\* not be found, or raised; stdout: empty, not JSON, or a JSON object, given
\* by the keys it holds and their values.  An entry of design_block is
\* [is_dict, keys, profile_a, profile_b].
OracleReply(launch, returncode, stdout, keys, a, b, block_is_list, block) ==
    [launch |-> launch, returncode |-> returncode, stdout |-> stdout,
     keys |-> keys, profile_a |-> a, profile_b |-> b,
     block_is_list |-> block_is_list, design_block |-> block]

NoReply == OracleReply("none", 0, "empty", {}, None, None, FALSE, << >>)

BlockEntry(is_dict, keys, a, b) ==
    [is_dict |-> is_dict, keys |-> keys, profile_a |-> a, profile_b |-> b]

\* dict.get(key): the value, None when the key is absent
JsonGet(obj, key) ==
    IF key \notin obj.keys THEN None
    ELSE IF key = "profile_a" THEN obj.profile_a ELSE obj.profile_b

DesignUnavailable == [data |-> None, error |-> TRUE]

NoResult == [data |-> None, error |-> FALSE]

\* "if not prior_draws": no criterion of the belief store has two levels or more
NoPriorDraws(u) == \A c \in DOMAIN u : Cardinality(DOMAIN u[c]) < 2

\* the design_block test of the block mode
WellFormedBlock(obj) ==
    /\ "design_block" \in obj.keys
    /\ obj.block_is_list
    /\ \A i \in 1..Len(obj.design_block) :
          /\ obj.design_block[i].is_dict
          /\ "profile_a" \in obj.design_block[i].keys
          /\ "profile_b" \in obj.design_block[i].keys

\* [data, error]: data is the pair << profile_a, profile_b >> (single mode) or
\* the list of entries (block mode), None with an error
request_R_design(u, reply, mode) ==
    IF NoPriorDraws(u) /\ mode = "modfed_single" THEN DesignUnavailable
    ELSE IF reply.launch # "ran" THEN DesignUnavailable   \* the two except clauses
    ELSE IF reply.returncode # 0 THEN DesignUnavailable
    ELSE IF reply.stdout # "json" \/ reply.keys = {} THEN DesignUnavailable
    ELSE IF "error" \in reply.keys THEN DesignUnavailable
    ELSE IF mode = "modfed_single"
         THEN [data  |-> << JsonGet(reply, "profile_a"), JsonGet(reply, "profile_b") >>,
               error |-> FALSE]
    ELSE IF mode = "cea_block"
         THEN IF WellFormedBlock(reply)
              THEN [data |-> reply.design_block, error |-> FALSE]
              ELSE DesignUnavailable
    ELSE DesignUnavailable

-----------------------------------------------------------------------------
(* DecisionApp.run: the choice of the initial strategy *)

VERY_DIFFUSE_VARIANCE_THRESHOLD == 2000000

STRONG_PRIOR_VARIANCE_THRESHOLD == 750000

\* '"high_confidence" in prior_quality_indicator': of the flags the generator
\* returns, only this one holds the substring
MentionsHighConfidence(flag) == flag = "llm_success_high_confidence"

\* the selection with >= where the source has > on the diffuse threshold
select_initial_strategy_DiffuseAtThreshold(flag, avg_variance) ==
    IF flag = "heuristic_fallback" \/ avg_variance >= 2000000
    THEN [strategy |-> "PYTHON_ORTHOGONAL_CF", block |-> 0]
    ELSE IF avg_variance <= 750000 /\ flag = "llm_success_high_confidence"
    THEN [strategy |-> "MODFED_DIRECT", block |-> 0]
    ELSE [strategy |-> "CEA_BLOCK_CF", block |-> 4]

\* [strategy, block]: initial_strategy and initial_block_size_cea
select_initial_strategy(flag, avg_variance) ==
    IF flag = "heuristic_fallback" \/ avg_variance > VERY_DIFFUSE_VARIANCE_THRESHOLD
    THEN [strategy |-> "PYTHON_ORTHOGONAL_CF", block |-> 0]
    ELSE IF /\ avg_variance <= STRONG_PRIOR_VARIANCE_THRESHOLD
            /\ MentionsHighConfidence(flag)
    THEN [strategy |-> "MODFED_DIRECT", block |-> 0]
    ELSE [strategy |-> "CEA_BLOCK_CF", block |-> 4]

-----------------------------------------------------------------------------
(* Starting beliefs: LLMInformedPriorGenerator and UserProfileHBM *)

\* _heuristic_utility_by_position, in tenths
heuristic_utility_by_position(position, total_levels) ==
    IF total_levels = 3 /\ position = 1 THEN 3
    ELSE IF total_levels = 3 /\ position = 2 THEN -1
    ELSE IF total_levels = 2 /\ position = 1 THEN 2
    ELSE position

\* _generate_default_informed_priors
generate_default_informed_priors(cl) ==
    [c \in Criteria(cl) |->
        [l \in Levels(cl, c) |->
            IF l = 0 THEN Belief(0, VarUnit \div 10)
            ELSE Belief(heuristic_utility_by_position(l, cl[c]), 3 * VarUnit)]]

\* variance_map = {'high': 0.5, 'medium': 1.5, 'low': 3.0}
variance_map(confidence) ==
    CASE confidence = "high"   -> VarUnit \div 2
      [] confidence = "medium" -> (3 * VarUnit) \div 2
      [] confidence = "low"    -> 3 * VarUnit

NonReference(cl) == { k \in Criteria(cl) \X (0..2) : k[2] # 0 /\ k[2] \in Levels(cl, k[1]) }

RECURSIVE VarianceSum(_, _)
VarianceSum(llm, keys) ==
    IF keys = {} THEN 0
    ELSE LET k == CHOOSE x \in keys : TRUE
         IN  variance_map(llm[k].confidence) + VarianceSum(llm, keys \ {k})

\* generate_contextual_priors once the reply of the language model is parsed:
\* llm gives each non-reference level [mean, confidence], confidence "none"
\* when the reply holds no prior for it.  [priors, flag, avg]
generate_contextual_priors(cl, llm) ==
    LET provided == { k \in NonReference(cl) : llm[k].confidence # "none" }
        heuristic_used_for_any_level == provided # NonReference(cl)
        flag == IF heuristic_used_for_any_level
                THEN "llm_success_mixed_with_heuristics"
                ELSE IF provided # {}
                THEN IF \A k \in provided : llm[k].confidence = "high"
                     THEN "llm_success_high_confidence"
                     ELSE IF \A k \in provided : llm[k].confidence = "low"
                     THEN "llm_success_low_confidence"
                     ELSE "llm_success_medium_confidence"
                ELSE "llm_success_parsing_issues"
    IN  [priors |->
            [c \in Criteria(cl) |->
                [l \in Levels(cl, c) |->
                    IF l = 0 THEN Belief(0, VarUnit \div 10)
                    ELSE IF << c, l >> \in provided
                    THEN Belief(llm[<< c, l >>].mean, variance_map(llm[<< c, l >>].confidence))
                    ELSE Belief(heuristic_utility_by_position(l, cl[c]),
                                (5 * VarUnit) \div 2)]],
         flag |-> flag,
         avg |-> IF provided = {} THEN 10 * VarUnit
                 ELSE VarianceSum(llm, provided) \div Cardinality(provided)]

\* UserProfileHBM.get_level_prior on a long-term profile that holds no entry
\* for the level: (0.0, 10.0)
default_level_prior == Belief(0, 10 * VarUnit)

\* BayesianUBC_Engine.__init__ without informed priors, the long-term
\* profile holding no entry
profile_priors(cl) ==
    [c \in Criteria(cl) |-> [l \in Levels(cl, c) |-> default_level_prior]]

-----------------------------------------------------------------------------
(* UserProfileHBM: the long-term profile *)

\* UserProfileHBM.data is modelled as the function that gives the entry
\* [mean_utility, variance] stored for << criterion, level index >>.  An
\* entry's mean_utility is in tenths, its variance in millionths.
EmptyProfile == [k \in {} |-> [mean_utility |-> 0, variance |-> 0]]

\* the profile file: absent, not parseable as JSON, or holding a mapping
ProfileFile(state, data) == [state |-> state, data |-> data]

\* UserProfileHBM._load
load(file) == IF file.state = "json" THEN file.data ELSE EmptyProfile

\* UserProfileHBM.get_level_prior
get_level_prior(data, criterion, level) ==
    IF << criterion, level >> \in DOMAIN data
    THEN Belief(data[<< criterion, level >>].mean_utility,
                data[<< criterion, level >>].variance)
    ELSE default_level_prior

\* UserProfileHBM.update_profile_with_posteriors, before the save: a posterior
\* gives [mean, sd] to a parameter, mean in tenths and sd in thousandths, so
\* that sd ** 2 is in millionths
update_profile_with_posteriors(data, posteriors) ==
    [k \in DOMAIN data \cup DOMAIN posteriors |->
        IF k \in DOMAIN posteriors
        THEN [mean_utility |-> posteriors[k].mean,
              variance |-> posteriors[k].sd * posteriors[k].sd]
        ELSE data[k]]

-----------------------------------------------------------------------------
(* run_mcmc_model_in_background: the posterior reconciler *)

\* param_names: one parameter for each level but the first of each criterion
\* that has two levels or more
param_names(cl) ==
    UNION { { << c, l >> : l \in 1 .. (cl[c] - 1) } : c \in { d \in Criteria(cl) : cl[d] >= 2 } }

\* what the inference collaborator does with a request: pymc can be imported
\* or not, pm.sample returns or raises, and the summary of the trace
InferenceEnv(pymc_installed, sampling_succeeds, posterior) ==
    [pymc_installed |-> pymc_installed, sampling_succeeds |-> sampling_succeeds,
     posterior |-> posterior]

\* the reconciler writing the summary it was given although pm.sample raised
run_mcmc_model_in_background_WritesOnFailure(data, history, cl, env) ==
    IF ~env.pymc_installed
    THEN [data |-> data, sampled |-> FALSE, saved |-> FALSE, message |-> "pymc_not_installed"]
    ELSE IF param_names(cl) = {}
    THEN [data |-> data, sampled |-> FALSE, saved |-> FALSE, message |-> "no_parameters"]
    ELSE [data |-> update_profile_with_posteriors(data,
                       [k \in param_names(cl) \cap DOMAIN env.posterior |-> env.posterior[k]]),
          sampled |-> TRUE, saved |-> TRUE,
          message |-> IF env.sampling_succeeds THEN "profile_updated" ELSE "sampling_failed"]

\* [data, sampled, saved, message]: the profile data after the call, whether
\* pm.sample was called, whether the profile was saved, and which of its
\* closing messages the function printed
run_mcmc_model_in_background(data, history, cl, env) ==
    IF ~env.pymc_installed
    THEN [data |-> data, sampled |-> FALSE, saved |-> FALSE, message |-> "pymc_not_installed"]
    ELSE IF param_names(cl) = {}
    THEN [data |-> data, sampled |-> FALSE, saved |-> FALSE, message |-> "no_parameters"]
    ELSE IF ~env.sampling_succeeds
    THEN [data |-> data, sampled |-> TRUE, saved |-> FALSE, message |-> "sampling_failed"]
    ELSE LET posteriors == [k \in param_names(cl) \cap DOMAIN env.posterior |->
                               env.posterior[k]]
         IN  [data |-> update_profile_with_posteriors(data, posteriors),
              sampled |-> TRUE, saved |-> TRUE, message |-> "profile_updated"]

-----------------------------------------------------------------------------
(* BayesianUBC_Engine.run_elicitation_session *)

\* the loop bound, one too large
MaxQuestions_OneMore == 8 + 1

\* max_questions
MaxQuestions == 8

\* MAX_PYTHON_ORTHO_CF_QUESTIONS as __init__ sets it
InitialMaxOrthoQuestions == 3

\* initial_block_size_cea, default of __init__
DefaultBlockSize == 4

\* "if self.r_idefix_consecutive_failures >= 3"
EscalationThreshold == 3

\* the phase test with = where the source has >=
CurrentPhase_ExactCount(strategy, questions_done, max_ortho, block_size) ==
    IF strategy = "PYTHON_ORTHOGONAL_CF" /\ questions_done = max_ortho
    THEN "MODFED_ADAPTIVE"
    ELSE IF strategy = "CEA_BLOCK_CF" /\ questions_done = block_size
    THEN "MODFED_ADAPTIVE"
    ELSE strategy

\* the phase test with > where the source has >=
CurrentPhase_OneLate(strategy, questions_done, max_ortho, block_size) ==
    IF strategy = "PYTHON_ORTHOGONAL_CF" /\ questions_done > max_ortho
    THEN "MODFED_ADAPTIVE"
    ELSE IF strategy = "CEA_BLOCK_CF" /\ questions_done > block_size
    THEN "MODFED_ADAPTIVE"
    ELSE strategy

\* current_phase_strategy of one loop iteration
CurrentPhase(strategy, questions_done, max_ortho, block_size) ==
    IF strategy = "PYTHON_ORTHOGONAL_CF" /\ questions_done >= max_ortho
    THEN "MODFED_ADAPTIVE"
    ELSE IF strategy = "CEA_BLOCK_CF" /\ questions_done >= block_size
    THEN "MODFED_ADAPTIVE"
    ELSE strategy

Phase == CurrentPhase(initial_strategy, initial_questions_done,
                      MAX_PYTHON_ORTHO_CF_QUESTIONS, initial_block_size_cea)

\* the flag set in the adaptive branch too
PerformCounterfactual_Always(branch) == TRUE

\* perform_counterfactual_this_turn as each branch of the loop leaves it:
\* "orthogonal", "block" (served from the cache or replaced by an orthogonal
\* pair) or "adaptive"
PerformCounterfactual(branch) == branch \in {"orthogonal", "block"}

\* the strategy left as it was when a block request fails
DowngradedStrategy_Unchanged == "CEA_BLOCK_CF"

\* initial_strategy after a block request failed
DowngradedStrategy == "PYTHON_ORTHOGONAL_CF"

\* "if r_error or not r_data_tuple" / "if r_error or not r_data or not isinstance(r_data, list)"
RequestFailed(res) == res.error \/ res.data = None

\* the escalation warning is printed after this failure
EscalationWarning(consecutive_failures) == consecutive_failures >= EscalationThreshold

\* the record turn_log keeps of one loop iteration
LogEntry(phase, request, failed, source, ortho_calls, ortho_idx, cache_idx, flag, presented, warning) ==
    [phase |-> phase,              \* current_phase_strategy
     request |-> request,          \* mode of the oracle request issued, "none"
     failed |-> failed,            \* the request was taken as failed
     source |-> source,            \* "orthogonal", "block_cache", "oracle"
     ortho_calls |-> ortho_calls,  \* calls of _get_python_orthogonal_pair
     ortho_idx |-> ortho_idx,      \* counter value the pair shown was built from, -1
     cache_idx |-> cache_idx,      \* cache position served, -1
     perform_cf |-> flag,          \* perform_counterfactual_this_turn
     presented |-> presented,      \* the question reached the user
     warning |-> warning,          \* the escalation warning was printed
     answered |-> FALSE,           \* the main answer was recorded
     cf_invoked |-> FALSE,         \* _ask_and_process_counterfactual was called
     cf_asked |-> FALSE,           \* the counterfactual question was put
     checked |-> FALSE,            \* _check_convergence was evaluated
     converged |-> FALSE]

\* the tail of one iteration's question generation: the None test, then the
\* question is printed and the loop waits for the answer
Present(a, b, flag) ==
    /\ profile_a' = a
    /\ profile_b' = b
    /\ perform_counterfactual_this_turn' = flag
    /\ cf_plan' = NoPlan
    /\ pc' = IF a = None \/ b = None THEN "done" ELSE "await_main"

Presented(a, b) == a # None /\ b # None

Observe(mode, reply, res) ==
    /\ oracle_mode' = mode
    /\ oracle_reply' = reply
    /\ oracle_result' = res

\* an iteration in the phase PYTHON_ORTHOGONAL_CF
KickstartOrthogonalTurn ==
    /\ pc = "loop"
    /\ Phase = "PYTHON_ORTHOGONAL_CF"
    /\ LET pair == get_python_orthogonal_pair(criteria_levels,
                                              orthogonal_fallback_pair_idx_counter)
           flag == PerformCounterfactual("orthogonal")
       IN  /\ question_count' = question_count + 1
           /\ orthogonal_fallback_pair_idx_counter' = pair.counter
           /\ initial_questions_done' = initial_questions_done + 1
           /\ Present(pair.a, pair.b, flag)
           /\ turn_log' = Append(turn_log,
                  LogEntry("PYTHON_ORTHOGONAL_CF", "none", FALSE, "orthogonal", 1,
                           orthogonal_fallback_pair_idx_counter, -1,
                           flag, Presented(pair.a, pair.b), FALSE))
    /\ Observe("none", NoReply, NoResult)
    /\ UNCHANGED << criteria_levels, utilities, initial_strategy, initial_block_size_cea,
                    MAX_PYTHON_ORTHO_CF_QUESTIONS, cea_block_cache, cea_block_cache_idx,
                    session_history, r_idefix_consecutive_failures, app_vars, tail_vars >>

\* a block requested at every turn of the phase
NeedFetch_EveryTurn(cache, idx) == idx >= 0

\* "if not self.cea_block_cache or self.cea_block_cache_idx >= len(self.cea_block_cache)"
NeedFetch(cache, idx) == cache = << >> \/ idx >= Len(cache)

\* an iteration in the phase CEA_BLOCK_CF; reply is the oracle's answer to the
\* block request, NoReply when the cache still holds a pair and none is made
KickstartBlockTurn(reply) ==
    /\ pc = "loop"
    /\ Phase = "CEA_BLOCK_CF"
    /\ LET need_fetch == NeedFetch(cea_block_cache, cea_block_cache_idx)
           res == IF need_fetch
                  THEN request_R_design(utilities, reply, "cea_block")
                  ELSE NoResult
           fetch_failed == need_fetch /\ RequestFailed(res)
           fetched == need_fetch /\ ~fetch_failed
           \* the fallback of the failed fetch
           first == get_python_orthogonal_pair(criteria_levels,
                                               orthogonal_fallback_pair_idx_counter)
           counter1 == IF fetch_failed THEN first.counter
                       ELSE orthogonal_fallback_pair_idx_counter
           done1 == IF fetch_failed THEN 0 ELSE initial_questions_done
           cache1 == IF fetched THEN res.data ELSE cea_block_cache
           idx1 == IF fetched THEN 0 ELSE cea_block_cache_idx
           \* "if self.cea_block_cache and self.cea_block_cache_idx < len(...)"
           serve == cache1 # << >> /\ idx1 < Len(cache1)
           second == get_python_orthogonal_pair(criteria_levels, counter1)
           a == IF serve THEN JsonGet(cache1[idx1 + 1], "profile_a") ELSE second.a
           b == IF serve THEN JsonGet(cache1[idx1 + 1], "profile_b") ELSE second.b
           flag == PerformCounterfactual("block")
       IN  /\ need_fetch <=> (reply # NoReply)
           /\ question_count' = question_count + 1
           /\ initial_strategy' = IF fetch_failed THEN DowngradedStrategy
                                  ELSE initial_strategy
           /\ MAX_PYTHON_ORTHO_CF_QUESTIONS' =
                  IF fetch_failed THEN initial_questions_done + 1
                  ELSE MAX_PYTHON_ORTHO_CF_QUESTIONS
           /\ initial_questions_done' = done1 + 1
           /\ cea_block_cache' = cache1
           /\ cea_block_cache_idx' = IF serve THEN idx1 + 1 ELSE idx1
           /\ orthogonal_fallback_pair_idx_counter' =
                  IF serve THEN counter1 ELSE second.counter
           /\ Present(a, b, flag)
           /\ turn_log' = Append(turn_log,
                  LogEntry("CEA_BLOCK_CF",
                           IF need_fetch THEN "cea_block" ELSE "none",
                           fetch_failed,
                           IF serve THEN "block_cache" ELSE "orthogonal",
                           (IF fetch_failed THEN 1 ELSE 0) + (IF serve THEN 0 ELSE 1),
                           IF serve THEN -1 ELSE counter1,
                           IF serve THEN idx1 ELSE -1,
                           flag, Presented(a, b), FALSE))
           /\ Observe(IF need_fetch THEN "cea_block" ELSE "none", reply, res)
    /\ UNCHANGED << criteria_levels, utilities, initial_block_size_cea,
                    session_history, r_idefix_consecutive_failures, app_vars, tail_vars >>

\* the counter kept as it is by a success
ConsecutiveFailures_NeverReset(failed, count) == IF failed THEN count + 1 ELSE count

\* r_idefix_consecutive_failures after a single request: "+= 1" when it
\* failed, "= 0" when it returned a pair
ConsecutiveFailures(failed, count) == IF failed THEN count + 1 ELSE 0

\* an iteration in the phase MODFED_DIRECT or MODFED_ADAPTIVE; reply is the
\* oracle's answer to the single request
AdaptiveTurn(reply) ==
    /\ pc = "loop"
    /\ Phase \notin {"PYTHON_ORTHOGONAL_CF", "CEA_BLOCK_CF"}
    /\ reply # NoReply
    /\ LET res == request_R_design(utilities, reply, "modfed_single")
           failed == RequestFailed(res)
           pair == get_python_orthogonal_pair(criteria_levels,
                                              orthogonal_fallback_pair_idx_counter)
           a == IF failed THEN pair.a ELSE res.data[1]
           b == IF failed THEN pair.b ELSE res.data[2]
           failures == ConsecutiveFailures(failed, r_idefix_consecutive_failures)
           warning == failed /\ pair.a # None /\ EscalationWarning(failures)
           flag == PerformCounterfactual("adaptive")
       IN  /\ question_count' = question_count + 1
           /\ initial_questions_done' =
                  IF \/ Phase = "MODFED_DIRECT"
                     \/ (initial_strategy # "MODFED_DIRECT" /\ Phase = "MODFED_ADAPTIVE")
                  THEN initial_questions_done + 1
                  ELSE initial_questions_done
           /\ orthogonal_fallback_pair_idx_counter' =
                  IF failed THEN pair.counter ELSE orthogonal_fallback_pair_idx_counter
           /\ r_idefix_consecutive_failures' = failures
           /\ Present(a, b, flag)
           /\ turn_log' = Append(turn_log,
                  LogEntry(Phase, "modfed_single", failed,
                           IF failed THEN "orthogonal" ELSE "oracle",
                           IF failed THEN 1 ELSE 0,
                           IF failed THEN orthogonal_fallback_pair_idx_counter ELSE -1,
                           -1,
                           flag, Presented(a, b), warning))
           /\ Observe("modfed_single", reply, res)
    /\ UNCHANGED << criteria_levels, utilities, initial_strategy, initial_block_size_cea,
                    MAX_PYTHON_ORTHO_CF_QUESTIONS, cea_block_cache, cea_block_cache_idx,
                    session_history, app_vars, tail_vars >>

\* the loop going on whatever the convergence check returned
ContinueLoop_IgnoresCheck(converged, count) == count < MaxQuestions

\* "for _ in range(max_questions)" and "if self._check_convergence(): break":
\* another iteration follows one that ended with count questions generated
ContinueLoop(converged, count) == ~converged /\ count < MaxQuestions

\* the end of an iteration: _check_convergence, then the next iteration, if any
EndOfIteration(u, log) ==
    LET converged == check_convergence(u)
        last == Len(log)
    IN  /\ pc' = IF ContinueLoop(converged, question_count) THEN "loop" ELSE "done"
        /\ turn_log' = [log EXCEPT ![last].checked = TRUE,
                                   ![last].converged = converged]

\* the history taking the newest record first
RecordResponse_NewestFirst(history, a, b, idx) == << << a, b, idx >> >> \o history

\* "self.session_history.append((profile_a, profile_b, chosen_idx_main))"
RecordResponse(history, a, b, idx) == Append(history, << a, b, idx >>)

\* the user answers the main question: 0 for option A, 1 for option B
AnswerMain(chosen_idx_main) ==
    /\ pc = "await_main"
    /\ LET chosen_profile_main == IF chosen_idx_main = 0 THEN profile_a ELSE profile_b
           rejected_profile_main == IF chosen_idx_main = 0 THEN profile_b ELSE profile_a
           u1 == update_utilities_simplified(utilities, chosen_profile_main,
                                             rejected_profile_main)
           plan == IF perform_counterfactual_this_turn
                   THEN counterfactual_plan(u1, criteria_levels, chosen_profile_main,
                                            rejected_profile_main)
                   ELSE NoPlan
           last == Len(turn_log)
           log1 == [turn_log EXCEPT ![last].answered = TRUE,
                                    ![last].cf_invoked = perform_counterfactual_this_turn,
                                    ![last].cf_asked = ~plan.skip]
       IN  /\ session_history' = RecordResponse(session_history, profile_a, profile_b,
                                                chosen_idx_main)
           /\ utilities' = u1
           /\ cf_plan' = plan
           /\ IF plan.skip
              THEN EndOfIteration(u1, log1)
              ELSE pc' = "await_cf" /\ turn_log' = log1
    /\ Observe("none", NoReply, NoResult)
    /\ UNCHANGED << criteria_levels, orthogonal_fallback_pair_idx_counter, initial_strategy,
                    initial_block_size_cea, MAX_PYTHON_ORTHO_CF_QUESTIONS,
                    initial_questions_done, cea_block_cache, cea_block_cache_idx,
                    question_count, r_idefix_consecutive_failures,
                    profile_a, profile_b, perform_counterfactual_this_turn, app_vars, tail_vars >>

\* the user answers the counterfactual question
AnswerCounterfactual(user_switched) ==
    /\ pc = "await_cf"
    /\ LET u1 == update_utilities_from_counterfactual(utilities, cf_plan.crit,
                                                      cf_plan.original, cf_plan.improved,
                                                      user_switched)
       IN  /\ utilities' = u1
           /\ EndOfIteration(u1, turn_log)
    /\ UNCHANGED << criteria_levels, orthogonal_fallback_pair_idx_counter, initial_strategy,
                    initial_block_size_cea, MAX_PYTHON_ORTHO_CF_QUESTIONS,
                    initial_questions_done, cea_block_cache, cea_block_cache_idx,
                    question_count, session_history, r_idefix_consecutive_failures,
                    profile_a, profile_b, perform_counterfactual_this_turn, cf_plan,
                    app_vars, oracle_vars, tail_vars >>

-----------------------------------------------------------------------------
(* DecisionApp.run after the session *)

\* the application moving on before the session has returned
SessionReturned_Anytime == pc \in { "loop", "done" }

\* "final_session_utilities, session_history = engine.run_elicitation_session()"
\* has returned: the statements after it run only then
SessionReturned == pc = "done"

\* "if not final_session_utilities: ... else: self._provide_recommendation(...)"
Recommend ==
    /\ SessionReturned
    /\ app_pc = "run"
    /\ recommendation_delivered' = (DOMAIN utilities # {})
    /\ app_pc' = "reconcile"
    /\ UNCHANGED << criteria_levels, utilities, orthogonal_fallback_pair_idx_counter,
                    initial_strategy, initial_block_size_cea,
                    MAX_PYTHON_ORTHO_CF_QUESTIONS, initial_questions_done,
                    cea_block_cache, cea_block_cache_idx, question_count,
                    session_history, r_idefix_consecutive_failures,
                    pc, profile_a, profile_b, perform_counterfactual_this_turn,
                    cf_plan, turn_log, app_vars, oracle_vars,
                    user_profile, profile_file, reconciler_runs, inference_calls,
                    saves, start_utilities, loaded_file, instances, returned >>

\* the application reconciling whatever the history holds
HasSessionData_Always(history) == Len(history) >= 0

\* "if session_history:"
HasSessionData(history) == history # << >>

\* "if session_history: run_mcmc_model_in_background(...)", with the update
\* and the save of the profile it ends with; returned keeps the message the
\* step printed
Reconcile(env) ==
    /\ SessionReturned
    /\ app_pc = "reconcile"
    /\ IF ~HasSessionData(session_history)
       THEN /\ returned' = << "no_session_data" >>
            /\ UNCHANGED << user_profile, profile_file, reconciler_runs,
                            inference_calls, saves >>
       ELSE LET result == run_mcmc_model_in_background(user_profile, session_history,
                                                       criteria_levels, env)
            IN  /\ reconciler_runs' = reconciler_runs + 1
                /\ inference_calls' = inference_calls + (IF result.sampled THEN 1 ELSE 0)
                /\ user_profile' = result.data
                /\ saves' = saves + (IF result.saved THEN 1 ELSE 0)
                /\ profile_file' = IF result.saved
                                   THEN ProfileFile("json", result.data)
                                   ELSE profile_file
                /\ returned' = << result.message >>
    /\ app_pc' = "complete"
    /\ UNCHANGED << criteria_levels, utilities, orthogonal_fallback_pair_idx_counter,
                    initial_strategy, initial_block_size_cea,
                    MAX_PYTHON_ORTHO_CF_QUESTIONS, initial_questions_done,
                    cea_block_cache, cea_block_cache_idx, question_count,
                    session_history, r_idefix_consecutive_failures,
                    pc, profile_a, profile_b, perform_counterfactual_this_turn,
                    cf_plan, turn_log, app_vars, oracle_vars,
                    recommendation_delivered, start_utilities, loaded_file, instances >>

-----------------------------------------------------------------------------
(* The environment of a session: configuration, priors, oracle replies *)

\* 3 criteria of 3 levels each
ValidCriteriaLevels == << 3, 3, 3 >>

\* number of single requests of a session the oracle answers with a pair
MaxOracleSuccesses == 1

\* length of a block the oracle returns short of the requested size
ShortBlockLen == 2

OraclePairs ==
    << << <<1,0,2>>, <<0,2,1>> >>,
       << <<2,2,0>>, <<2,0,1>> >>,
       << <<0,1,1>>, <<1,1,0>> >> >>

BlockPairs ==
    << << <<0,1,2>>, <<1,2,0>> >>,
       << <<2,0,0>>, <<0,2,2>> >>,
       << <<1,1,1>>, <<2,2,1>> >>,
       << <<0,0,1>>, <<2,1,0>> >>,
       << <<1,2,2>>, <<0,1,0>> >> >>

Ran(keys, a, b, block_is_list, block) ==
    OracleReply("ran", 0, "json", keys, a, b, block_is_list, block)

SingleOk(pair) == Ran({"profile_a", "profile_b"}, pair[1], pair[2], FALSE, << >>)

\* replies to a single request that the adapter reports as failed: the
\* process cannot be started, and the reply carries an error field
SingleFailureReplies ==
    { OracleReply("not_found", 0, "empty", {}, None, None, FALSE, << >>),
      Ran({"error"}, None, None, FALSE, << >>) }

\* a reply to a single request that lacks profile_b
SingleShapeMismatchReplies ==
    { Ran({"profile_a"}, OraclePairs[1][1], None, FALSE, << >>) }

\* the single requests of the session answered so far
SingleAnswered(log) ==
    Cardinality({ i \in 1..Len(log) : log[i].request = "modfed_single" /\ ~log[i].failed })

\* the replies a single request can get after n answered ones: the oracle
\* answers with the next pair of OraclePairs, in turn
SingleReplies(n) ==
    SingleFailureReplies \cup SingleShapeMismatchReplies
        \cup (IF n < MaxOracleSuccesses
              THEN { SingleOk(OraclePairs[(n % Len(OraclePairs)) + 1]) }
              ELSE {})

EntryOf(pair) == BlockEntry(TRUE, {"profile_a", "profile_b"}, pair[1], pair[2])

BlockOf(n) == [i \in 1..n |-> EntryOf(BlockPairs[i])]

BlockOk(n) == Ran({"design_block"}, None, None, TRUE, BlockOf(n))

\* replies to a block request that the adapter reports as failed: an error
\* field, and an entry that lacks both profile keys
BlockFailureReplies ==
    { Ran({"error"}, None, None, FALSE, << >>),
      Ran({"design_block"}, None, None, TRUE,
          << EntryOf(BlockPairs[1]), BlockEntry(TRUE, {}, None, None) >>) }

\* an entry whose profile values are null
BlockShapeMismatchReplies ==
    { Ran({"design_block"}, None, None, TRUE,
          << EntryOf(BlockPairs[1]),
             BlockEntry(TRUE, {"profile_a", "profile_b"}, None, None) >>) }

BlockReplies ==
    BlockFailureReplies \cup BlockShapeMismatchReplies
        \cup { BlockOk(DefaultBlockSize), BlockOk(ShortBlockLen) }

\* replies of the language model to the prior request
UniformLLM(m, confidence) ==
    [k \in NonReference(ValidCriteriaLevels) |-> [mean |-> m, confidence |-> confidence]]

LLMReplies ==
    { UniformLLM(20, "high"),
      UniformLLM(5, "medium"),
      UniformLLM(-5, "low"),
      [k \in NonReference(ValidCriteriaLevels) |->
          IF k = << 1, 1 >> THEN [mean |-> 10, confidence |-> "medium"]
          ELSE [mean |-> 0, confidence |-> "none"]] }

Strategies == {"PYTHON_ORTHOGONAL_CF", "CEA_BLOCK_CF", "MODFED_DIRECT"}

\* a profile file written by an earlier session
StoredProfile ==
    ProfileFile("json",
        [k \in { << 1, 1 >>, << 2, 2 >> } |->
            IF k = << 1, 1 >> THEN [mean_utility |-> 5, variance |-> 2 * VarUnit]
            ELSE [mean_utility |-> -3, variance |-> 640000]])

MissingProfile == ProfileFile("missing", EmptyProfile)

\* a summary of the trace: every parameter at mean 0.4, sd 0.9
FlatPosterior(cl) == [k \in param_names(cl) |-> [mean |-> 4, sd |-> 900]]

\* the collaborator is not installed, fails in pm.sample, or returns a trace
InferenceEnvs(cl) ==
    { InferenceEnv(FALSE, FALSE, FlatPosterior(cl)),
      InferenceEnv(TRUE, FALSE, FlatPosterior(cl)),
      InferenceEnv(TRUE, TRUE, FlatPosterior(cl)) }

-----------------------------------------------------------------------------
(* Construction *)

\* BayesianUBC_Engine.__init__, but for the strategy, the block size and the
\* beliefs
EngineFields(cl) ==
    /\ criteria_levels = cl
    /\ orthogonal_fallback_pair_idx_counter = 0
    /\ MAX_PYTHON_ORTHO_CF_QUESTIONS = InitialMaxOrthoQuestions
    /\ initial_questions_done = 0
    /\ cea_block_cache = << >>
    /\ cea_block_cache_idx = 0
    /\ question_count = 0
    /\ session_history = << >>
    /\ r_idefix_consecutive_failures = 0
    /\ profile_a = None
    /\ profile_b = None
    /\ perform_counterfactual_this_turn = FALSE
    /\ cf_plan = NoPlan
    /\ turn_log = << >>

NoRequest ==
    /\ oracle_mode = "none"
    /\ oracle_reply = NoReply
    /\ oracle_result = NoResult

\* one DecisionApp object only: the one the other variables describe
NoInstances == << >>

\* DecisionApp.__init__ loads the profile from its file; position is "run"
\* when DecisionApp.run drives the engine, "none" when the engine stands alone
Surroundings(position, file) ==
    /\ app_pc = position
    /\ profile_file = file
    /\ user_profile = load(file)
    /\ recommendation_delivered = FALSE
    /\ reconciler_runs = 0
    /\ inference_calls = 0
    /\ saves = 0
    /\ start_utilities = utilities
    /\ loaded_file = file
    /\ instances = NoInstances
    /\ returned = << >>

\* DecisionApp.run with the priors generated and the strategy not chosen yet:
\* initial_strategy = "MODFED_DIRECT", initial_block_size_cea = 0
InitApp ==
    \E llm \in LLMReplies :
        LET generated == generate_contextual_priors(ValidCriteriaLevels, llm)
        IN  /\ prior_quality_indicator = generated.flag
            /\ avg_prior_variance = generated.avg
            /\ utilities = generated.priors
            /\ initial_strategy = "MODFED_DIRECT"
            /\ initial_block_size_cea = 0
            /\ pc = "select"
            /\ EngineFields(ValidCriteriaLevels)
            /\ NoRequest
            /\ Surroundings("run", StoredProfile)

\* an engine built without informed priors on an empty long-term profile, for
\* each strategy; prior_quality_indicator and avg_prior_variance as run
\* declares them
InitEngine ==
    \E strategy \in Strategies :
        /\ prior_quality_indicator = "heuristic_fallback"
        /\ avg_prior_variance = 10 * VarUnit
        /\ utilities = profile_priors(ValidCriteriaLevels)
        /\ initial_strategy = strategy
        /\ initial_block_size_cea = DefaultBlockSize
        /\ pc = "loop"
        /\ EngineFields(ValidCriteriaLevels)
        /\ NoRequest
        /\ Surroundings("none", MissingProfile)

Init == InitApp \/ InitEngine

\* DecisionApp.run: the strategy is chosen and the engine is built on the
\* informed priors
SelectStrategy ==
    /\ pc = "select"
    /\ LET selected == select_initial_strategy(prior_quality_indicator, avg_prior_variance)
       IN  /\ initial_strategy' = selected.strategy
           /\ initial_block_size_cea' = selected.block
    /\ pc' = "loop"
    /\ UNCHANGED << criteria_levels, utilities, orthogonal_fallback_pair_idx_counter,
                    MAX_PYTHON_ORTHO_CF_QUESTIONS, initial_questions_done,
                    cea_block_cache, cea_block_cache_idx, question_count,
                    session_history, r_idefix_consecutive_failures,
                    profile_a, profile_b, perform_counterfactual_this_turn,
                    cf_plan, turn_log, app_vars, oracle_vars, tail_vars >>

Next ==
    \/ SelectStrategy
    \/ KickstartOrthogonalTurn
    \/ \E reply \in BlockReplies \cup {NoReply} : KickstartBlockTurn(reply)
    \/ \E reply \in SingleReplies(SingleAnswered(turn_log)) : AdaptiveTurn(reply)
    \/ \E chosen_idx_main \in {0, 1} : AnswerMain(chosen_idx_main)
    \/ \E user_switched \in BOOLEAN : AnswerCounterfactual(user_switched)
    \/ Recommend
    \/ \E env \in InferenceEnvs(criteria_levels) : Reconcile(env)

Spec == Init /\ [][Next]_vars

-----------------------------------------------------------------------------
(* The strategy selection on its own, over every flag and variances around  *)
(* the two thresholds                                                       *)

QualityFlags ==
    { "heuristic_fallback", "llm_success_mixed_with_heuristics",
      "llm_success_high_confidence", "llm_success_medium_confidence",
      "llm_success_low_confidence", "llm_success_parsing_issues" }

AverageVariances ==
    { 0, 100000, 500000, 749999, 750000, 750001, 1000000, 1500000,
      1999999, 2000000, 2000001, 2500000, 3000000, 10000000 }

InitSelect ==
    \E flag \in QualityFlags, avg \in AverageVariances :
        /\ prior_quality_indicator = flag
        /\ avg_prior_variance = avg
        /\ utilities = generate_default_informed_priors(ValidCriteriaLevels)
        /\ initial_strategy = "MODFED_DIRECT"
        /\ initial_block_size_cea = 0
        /\ pc = "select"
        /\ EngineFields(ValidCriteriaLevels)
        /\ NoRequest
        /\ Surroundings("none", MissingProfile)

NextSelect == SelectStrategy

SpecSelect == InitSelect /\ [][NextSelect]_vars

-----------------------------------------------------------------------------
(* The oracle adapter on its own, over the replies of the R process         *)

SampleProfile == << 1, 0, 2 >>

SampleBlocks ==
    { << >>,
      BlockOf(2),
      << EntryOf(BlockPairs[1]), BlockEntry(TRUE, {}, None, None) >>,
      << EntryOf(BlockPairs[1]), BlockEntry(TRUE, {"profile_a"}, SampleProfile, None) >>,
      << EntryOf(BlockPairs[1]), BlockEntry(FALSE, {}, None, None) >>,
      << EntryOf(BlockPairs[1]),
         BlockEntry(TRUE, {"profile_a", "profile_b"}, None, SampleProfile) >> }

\* the JSON objects the R process may print
JsonReplies ==
    { Ran(keys, a, b, is_list, block) :
        keys \in SUBSET {"error", "profile_a", "profile_b", "design_block"},
        a \in {None, SampleProfile}, b \in {None, SampleProfile},
        is_list \in BOOLEAN, block \in SampleBlocks }

ProcessFailures ==
    { OracleReply(launch, returncode, stdout, {}, None, None, FALSE, << >>) :
        launch \in {"ran", "not_found", "raised"}, returncode \in {0, 1},
        stdout \in {"empty", "garbage"} }
      \cup { OracleReply("ran", 1, "json", keys, None, None, FALSE, << >>) :
                keys \in {{}, {"error"}} }

AllReplies == JsonReplies \cup ProcessFailures

InitOracle ==
    \E mode \in {"modfed_single", "cea_block"}, reply \in AllReplies :
        /\ oracle_mode = mode
        /\ oracle_reply = reply
        /\ oracle_result = NoResult
        /\ prior_quality_indicator = "heuristic_fallback"
        /\ avg_prior_variance = 10 * VarUnit
        /\ utilities = profile_priors(ValidCriteriaLevels)
        /\ initial_strategy = "MODFED_DIRECT"
        /\ initial_block_size_cea = 0
        /\ pc = "request"
        /\ EngineFields(ValidCriteriaLevels)
        /\ Surroundings("none", MissingProfile)

\* one call of request_R_design
CallOracle ==
    /\ pc = "request"
    /\ oracle_result' = request_R_design(utilities, oracle_reply, oracle_mode)
    /\ pc' = "returned"
    /\ UNCHANGED << criteria_levels, utilities, orthogonal_fallback_pair_idx_counter,
                    initial_strategy, initial_block_size_cea,
                    MAX_PYTHON_ORTHO_CF_QUESTIONS, initial_questions_done,
                    cea_block_cache, cea_block_cache_idx, question_count,
                    session_history, r_idefix_consecutive_failures,
                    profile_a, profile_b, perform_counterfactual_this_turn,
                    cf_plan, turn_log, app_vars, oracle_mode, oracle_reply, tail_vars >>

NextOracle == CallOracle

SpecOracle == InitOracle /\ [][NextOracle]_vars

-----------------------------------------------------------------------------
(* The engine built on a configuration that is not 3 criteria of 3 levels   *)

\* two criteria; a criterion of two levels; a criterion of four levels
InvalidCriteriaLevels == { << 3, 3 >>, << 3, 2, 3 >>, << 3, 3, 4 >> }

InitInvalid ==
    \E cl \in InvalidCriteriaLevels, strategy \in Strategies :
        /\ prior_quality_indicator = "heuristic_fallback"
        /\ avg_prior_variance = 10 * VarUnit
        /\ utilities = [c \in Criteria(cl) |->
                           [l \in Levels(cl, c) |-> get_level_prior(EmptyProfile, c, l)]]
        /\ initial_strategy = strategy
        /\ initial_block_size_cea = DefaultBlockSize
        /\ pc = "loop"
        /\ EngineFields(cl)
        /\ NoRequest
        /\ Surroundings("none", MissingProfile)

NextInvalid ==
    \/ KickstartOrthogonalTurn
    \/ \E reply \in BlockReplies \cup {NoReply} : KickstartBlockTurn(reply)
    \/ \E reply \in SingleReplies(SingleAnswered(turn_log)) : AdaptiveTurn(reply)
    \/ \E chosen_idx_main \in {0, 1} : AnswerMain(chosen_idx_main)
    \/ \E user_switched \in BOOLEAN : AnswerCounterfactual(user_switched)

SpecInvalid == InitInvalid /\ [][NextInvalid]_vars

-----------------------------------------------------------------------------
(* The orthogonal generator on its own: an engine that has made some calls  *)
(* already is asked for more pairs                                          *)

\* calls made before the observation starts
MaxEarlierCalls == 8

\* calls observed
MaxGeneratorCalls == 20

InitGenerator ==
    \E earlier \in 0 .. MaxEarlierCalls :
        /\ criteria_levels = ValidCriteriaLevels
        /\ orthogonal_fallback_pair_idx_counter = earlier
        /\ MAX_PYTHON_ORTHO_CF_QUESTIONS = InitialMaxOrthoQuestions
        /\ initial_questions_done = 0
        /\ cea_block_cache = << >>
        /\ cea_block_cache_idx = 0
        /\ question_count = 0
        /\ session_history = << >>
        /\ r_idefix_consecutive_failures = 0
        /\ profile_a = None
        /\ profile_b = None
        /\ perform_counterfactual_this_turn = FALSE
        /\ cf_plan = NoPlan
        /\ turn_log = << >>
        /\ prior_quality_indicator = "heuristic_fallback"
        /\ avg_prior_variance = 10 * VarUnit
        /\ utilities = profile_priors(ValidCriteriaLevels)
        /\ initial_strategy = "PYTHON_ORTHOGONAL_CF"
        /\ initial_block_size_cea = DefaultBlockSize
        /\ pc = "generator"
        /\ NoRequest
        /\ Surroundings("none", MissingProfile)

\* one call of _get_python_orthogonal_pair; returned keeps, for each call,
\* the counter before it, the pair and the counter after it
CallGenerator ==
    /\ pc = "generator"
    /\ Len(returned) < MaxGeneratorCalls
    /\ LET pair == get_python_orthogonal_pair(criteria_levels,
                                              orthogonal_fallback_pair_idx_counter)
       IN  /\ profile_a' = pair.a
           /\ profile_b' = pair.b
           /\ orthogonal_fallback_pair_idx_counter' = pair.counter
           /\ returned' = Append(returned,
                  [before |-> orthogonal_fallback_pair_idx_counter,
                   a |-> pair.a, b |-> pair.b, after |-> pair.counter])
    /\ UNCHANGED << criteria_levels, utilities, initial_strategy, initial_block_size_cea,
                    MAX_PYTHON_ORTHO_CF_QUESTIONS, initial_questions_done,
                    cea_block_cache, cea_block_cache_idx, question_count,
                    session_history, r_idefix_consecutive_failures, pc,
                    perform_counterfactual_this_turn, cf_plan, turn_log,
                    app_vars, oracle_vars, app_pc, user_profile, profile_file,
                    recommendation_delivered, reconciler_runs, inference_calls,
                    saves, start_utilities, loaded_file, instances >>

NextGenerator == CallGenerator

SpecGenerator == InitGenerator /\ [][NextGenerator]_vars

-----------------------------------------------------------------------------
(* The convergence monitor on its own, over belief stores of 0 to 3         *)
(* criteria whose mean variance is below, at and above 1.0                  *)

\* the variances of the three levels of a criterion
RowSamples ==
    { << 500000, 500000, 500000 >>,
      << 1000000, 1000000, 1000000 >>,
      << 100000, 1450000, 1450000 >>,
      << 100000, 1450000, 1449999 >>,
      << 500000, 500000, 5000000 >>,
      << 100000, 3000000, 3000000 >> }

StoreOf(rows) ==
    [c \in 1 .. Len(rows) |-> [l \in 0 .. 2 |-> Belief(0, rows[c][l + 1])]]

StoreSamples ==
    { StoreOf(rows) : rows \in UNION { [1 .. n -> RowSamples] : n \in 0 .. 3 } }

InitConvergence ==
    \E store \in StoreSamples :
        /\ utilities = store
        /\ prior_quality_indicator = "heuristic_fallback"
        /\ avg_prior_variance = 10 * VarUnit
        /\ initial_strategy = "PYTHON_ORTHOGONAL_CF"
        /\ initial_block_size_cea = DefaultBlockSize
        /\ pc = "convergence"
        /\ EngineFields([c \in DOMAIN store |-> 3])
        /\ NoRequest
        /\ Surroundings("none", MissingProfile)

\* one call of _check_convergence
CallCheckConvergence ==
    /\ pc = "convergence"
    /\ returned' = << check_convergence(utilities) >>
    /\ pc' = "returned"
    /\ UNCHANGED << criteria_levels, utilities, orthogonal_fallback_pair_idx_counter,
                    initial_strategy, initial_block_size_cea,
                    MAX_PYTHON_ORTHO_CF_QUESTIONS, initial_questions_done,
                    cea_block_cache, cea_block_cache_idx, question_count,
                    session_history, r_idefix_consecutive_failures,
                    profile_a, profile_b, perform_counterfactual_this_turn,
                    cf_plan, turn_log, app_vars, oracle_vars, app_pc, user_profile,
                    profile_file, recommendation_delivered, reconciler_runs,
                    inference_calls, saves, start_utilities, loaded_file, instances >>

NextConvergence == CallCheckConvergence

SpecConvergence == InitConvergence /\ [][NextConvergence]_vars

-----------------------------------------------------------------------------
(* DecisionApp.run from the end of the session on, over session histories,  *)
(* profile files and behaviours of the inference collaborator               *)

\* a record whose two profiles hold reference levels only
ReferenceRecord(choice) == << << 0, 0, 0 >>, << 0, 0, 0 >>, choice >>

HistorySamples ==
    { << >>,
      << ReferenceRecord(0) >>,
      << ReferenceRecord(1), ReferenceRecord(0) >>,
      << << << 0, 0, 0 >>, << 1, 1, 2 >>, 0 >> >>,
      << << << 0, 0, 0 >>, << 1, 1, 2 >>, 1 >>, << << 0, 1, 1 >>, << 1, 2, 0 >>, 0 >> >> }

CorruptedProfile == ProfileFile("corrupted", EmptyProfile)

ProfileFiles == { MissingProfile, CorruptedProfile, StoredProfile }

\* a summary of the trace that differs from one parameter to the next
GradedPosterior(cl) ==
    [k \in param_names(cl) |-> [mean |-> k[1] + k[2], sd |-> 300 * k[2]]]

InferenceEnvsWide(cl) ==
    InferenceEnvs(cl) \cup { InferenceEnv(TRUE, TRUE, GradedPosterior(cl)) }

\* 3 criteria of 3 levels; 3 criteria of a single level, which give the
\* reconciler no parameter
ReconcilerConfigurations == { ValidCriteriaLevels, << 1, 1, 1 >> }

InitReconcile ==
    \E cl \in ReconcilerConfigurations, history \in HistorySamples, file \in ProfileFiles :
        /\ prior_quality_indicator = "llm_success_medium_confidence"
        /\ avg_prior_variance = (3 * VarUnit) \div 2
        /\ utilities = generate_default_informed_priors(cl)
        /\ initial_strategy = "CEA_BLOCK_CF"
        /\ initial_block_size_cea = DefaultBlockSize
        /\ pc = "done"
        /\ criteria_levels = cl
        /\ orthogonal_fallback_pair_idx_counter = 0
        /\ MAX_PYTHON_ORTHO_CF_QUESTIONS = InitialMaxOrthoQuestions
        /\ initial_questions_done = Len(history)
        /\ cea_block_cache = << >>
        /\ cea_block_cache_idx = 0
        /\ question_count = Len(history)
        /\ session_history = history
        /\ r_idefix_consecutive_failures = 0
        /\ profile_a = None
        /\ profile_b = None
        /\ perform_counterfactual_this_turn = FALSE
        /\ cf_plan = NoPlan
        /\ turn_log = << >>
        /\ NoRequest
        /\ Surroundings("run", file)

NextReconcile ==
    \/ Recommend
    \/ \E env \in InferenceEnvsWide(criteria_levels) : Reconcile(env)

SpecReconcile == InitReconcile /\ [][NextReconcile]_vars

-----------------------------------------------------------------------------
(* Vocabulary of the properties *)

KickstartPhases == {"PYTHON_ORTHOGONAL_CF", "CEA_BLOCK_CF"}

AdaptivePhases == {"MODFED_ADAPTIVE", "MODFED_DIRECT"}

Turns == 1 .. Len(turn_log)

\* the single request of turn i was taken as failed
FailedAdaptive(i) == turn_log[i].request = "modfed_single" /\ turn_log[i].failed

\* the pair put to the user in turn i: every turn before the last one was
\* answered, so that record i of the history is the one of turn i
ShownPair(i) ==
    IF i <= Len(session_history)
    THEN << session_history[i][1], session_history[i][2] >>
    ELSE << profile_a, profile_b >>

RECURSIVE OrthogonalCallsBefore(_)
OrthogonalCallsBefore(i) ==
    IF i <= 1 THEN 0
    ELSE OrthogonalCallsBefore(i - 1) + turn_log[i - 1].ortho_calls

\* the k-th predefined pair of the orthogonal design, k counted from 0
PredefinedPair(k) ==
    << L9_PROFILES[ORTHOGONAL_PAIRS_INDICES[(k % 9) + 1][1] + 1],
       L9_PROFILES[ORTHOGONAL_PAIRS_INDICES[(k % 9) + 1][2] + 1] >>

\* the session ended the regular way: after a convergence check that was
\* true, or after the 8th question
EndedRegularly ==
    /\ turn_log # << >>
    /\ turn_log[Len(turn_log)].checked
    /\ turn_log[Len(turn_log)].converged \/ question_count = 8

-----------------------------------------------------------------------------
(* C1 *)

\* C1: every belief of the store has its mean in [-2, 2] and its variance
\* >= 0.01, after every main-choice update and every counterfactual update
\* of a session whose starting beliefs are in that range.
C1_BeliefsInRange ==
    \A c \in DOMAIN utilities : \A l \in DOMAIN utilities[c] :
        /\ -20 <= utilities[c][l].mean
        /\ utilities[c][l].mean <= 20
        /\ utilities[c][l].variance >= 10000

-----------------------------------------------------------------------------
(* C2 *)

\* C2: on a valid 3 x 3 configuration, a turn whose single request failed is
\* handled in an adaptive phase, shows the next pair of the orthogonal design,
\* runs no counterfactual, and is followed by another adaptive turn that
\* issues a single request again; the session does not end in such a turn
\* but by convergence or with the 8th question, however many failures come
\* in a row.
C2_AdaptiveFailureFallsBack ==
    \A i \in Turns :
        FailedAdaptive(i) =>
            /\ turn_log[i].phase \in AdaptivePhases
            /\ turn_log[i].source = "orthogonal"
            /\ turn_log[i].presented
            /\ ShownPair(i) = PredefinedPair(OrthogonalCallsBefore(i))
            /\ ~turn_log[i].perform_cf
            /\ ~turn_log[i].cf_invoked
            /\ ~turn_log[i].cf_asked
            /\ i < Len(turn_log) =>
                  /\ turn_log[i + 1].phase \in AdaptivePhases
                  /\ turn_log[i + 1].request = "modfed_single"
            /\ i = Len(turn_log) =>
                  /\ pc \in {"await_main", "loop", "done"}
                  /\ pc = "done" => EndedRegularly

\* four failed single requests in a row, the fourth fallback question answered
C2_Witness ==
    \E i \in Turns :
        /\ i + 3 <= Len(turn_log)
        /\ \A j \in i .. (i + 3) : FailedAdaptive(j)
        /\ turn_log[i + 3].answered
        /\ pc = "loop"

-----------------------------------------------------------------------------
(* C3 *)

\* the failure classes of the oracle protocol: transport or process failure,
\* reply that is not JSON, explicit error field, shape mismatch
ProcessFailed(reply) == reply.launch # "ran" \/ reply.returncode # 0

NotJson(reply) == reply.stdout # "json"

ExplicitError(reply) == "error" \in reply.keys

ShapeMismatch(reply, mode) ==
    IF mode = "modfed_single"
    THEN JsonGet(reply, "profile_a") = None \/ JsonGet(reply, "profile_b") = None
    ELSE \/ "design_block" \notin reply.keys
         \/ ~reply.block_is_list
         \/ \E k \in 1..Len(reply.design_block) :
               \/ ~reply.design_block[k].is_dict
               \/ JsonGet(reply.design_block[k], "profile_a") = None
               \/ JsonGet(reply.design_block[k], "profile_b") = None

FailureReply(reply, mode) ==
    \/ ProcessFailed(reply)
    \/ NotJson(reply)
    \/ ExplicitError(reply)
    \/ ShapeMismatch(reply, mode)

\* C3: every reply of a failure class is reported by the adapter as
\* DesignUnavailable (no data, an error), in single and in block mode, and
\* the turn goes on with a question of the orthogonal design: the session
\* does not end on it.
C3_FailureIsDesignUnavailable ==
    (oracle_mode # "none" /\ FailureReply(oracle_reply, oracle_mode)) =>
        /\ oracle_result = DesignUnavailable
        /\ pc = "await_main"
        /\ turn_log[Len(turn_log)].source = "orthogonal"

-----------------------------------------------------------------------------
(* C4 *)

\* C4: the question counter never exceeds 8, the history never holds more
\* than 8 records, and no iteration starts after the 8th: the session is over
\* after at most 8 turns, whatever the starting phase, the oracle and the
\* answers.
C4_AtMostEightTurns ==
    /\ question_count <= 8
    /\ Len(session_history) <= 8
    /\ Len(turn_log) <= 8
    /\ question_count >= 8 => pc \in {"await_main", "await_cf", "done"}
    /\ (question_count >= 8 /\ Len(session_history) >= 8 /\ pc # "await_cf") => pc = "done"

\* a session that asked its 8 questions, got 8 answers and ended
C4_Witness ==
    /\ question_count = 8
    /\ Len(session_history) = 8
    /\ pc = "done"

-----------------------------------------------------------------------------
(* C5 *)

\* C5: the initial phase is decided by (prior-quality flag, average starting
\* variance) in this order: the fallback flag or a variance > 2.0 gives the
\* orthogonal kickstart, even with a variance <= 0.75; otherwise a variance
\* <= 0.75 with the high-confidence flag gives the direct adaptive phase;
\* otherwise the block kickstart with blocks of 4.  2.0 itself does not give
\* the orthogonal kickstart, 0.75 itself with high confidence gives the
\* direct adaptive phase.
C5_InitialPhase ==
    pc = "loop" =>
        LET flag == prior_quality_indicator
            v == avg_prior_variance
        IN  /\ (flag = "heuristic_fallback" \/ v > 2000000)
                => initial_strategy = "PYTHON_ORTHOGONAL_CF"
            /\ (flag # "heuristic_fallback" /\ v <= 2000000
                    /\ v <= 750000 /\ flag = "llm_success_high_confidence")
                => initial_strategy = "MODFED_DIRECT"
            /\ (flag # "heuristic_fallback" /\ v <= 2000000
                    /\ ~(v <= 750000 /\ flag = "llm_success_high_confidence"))
                => (initial_strategy = "CEA_BLOCK_CF" /\ initial_block_size_cea = 4)
            /\ (v = 2000000 /\ flag # "heuristic_fallback")
                => initial_strategy # "PYTHON_ORTHOGONAL_CF"
            /\ (v = 750000 /\ flag = "llm_success_high_confidence")
                => initial_strategy = "MODFED_DIRECT"

\* the strategy was chosen for a variance of exactly 2.0 and a flag that is
\* neither the fallback nor high confidence
C5_Witness ==
    /\ pc = "loop"
    /\ avg_prior_variance = 2000000
    /\ prior_quality_indicator = "llm_success_medium_confidence"
    /\ initial_strategy = "CEA_BLOCK_CF"

-----------------------------------------------------------------------------
(* C6 *)

\* C6: in a session that starts in the orthogonal kickstart, on a valid
\* configuration, turns 1 to 3 are orthogonal kickstart questions, each
\* followed by the counterfactual step, and every later turn is an adaptive
\* one: a single request to the oracle and no counterfactual.
C6_ThreeKickstartTurnsThenAdaptive ==
    (turn_log # << >> /\ turn_log[1].phase = "PYTHON_ORTHOGONAL_CF") =>
        \A i \in Turns :
            /\ i <= 3 =>
                  /\ turn_log[i].phase = "PYTHON_ORTHOGONAL_CF"
                  /\ turn_log[i].source = "orthogonal"
                  /\ turn_log[i].request = "none"
                  /\ turn_log[i].presented
                  /\ turn_log[i].perform_cf
                  /\ turn_log[i].answered => turn_log[i].cf_invoked
            /\ i >= 4 =>
                  /\ turn_log[i].phase = "MODFED_ADAPTIVE"
                  /\ turn_log[i].request = "modfed_single"
                  /\ ~turn_log[i].perform_cf
                  /\ ~turn_log[i].cf_invoked

\* a session started in the orthogonal kickstart that answered its 5th turn
C6_Witness ==
    /\ Len(turn_log) >= 5
    /\ turn_log[1].phase = "PYTHON_ORTHOGONAL_CF"
    /\ turn_log[3].cf_invoked
    /\ turn_log[5].answered

-----------------------------------------------------------------------------
(* C7 *)

KickstartTurns == { i \in Turns : turn_log[i].phase \in KickstartPhases }

\* C7: in a session that starts in the block kickstart with blocks of 4, at
\* most 4 turns are handled as kickstart turns, whatever the oracle does.
C7_AtMostFourKickstartTurns ==
    (turn_log # << >> /\ turn_log[1].phase = "CEA_BLOCK_CF"
        /\ initial_block_size_cea = 4)
        => Cardinality(KickstartTurns) <= 4

-----------------------------------------------------------------------------
(* C8 *)

FailedBlockRequest(i) == turn_log[i].request = "cea_block" /\ turn_log[i].failed

\* C8: the turn of a failed block request shows a question of the orthogonal
\* design followed by the counterfactual step, and in the rest of the session
\* no block request is issued and no question comes from the block cache.
C8_BlockFailureIsOneWay ==
    \A i \in Turns :
        FailedBlockRequest(i) =>
            /\ turn_log[i].source = "orthogonal"
            /\ turn_log[i].presented
            /\ ShownPair(i) \in { PredefinedPair(k) : k \in 0..8 }
            /\ turn_log[i].perform_cf
            /\ turn_log[i].answered => turn_log[i].cf_invoked
            /\ \A j \in Turns :
                  j > i => /\ turn_log[j].request # "cea_block"
                           /\ turn_log[j].source # "block_cache"
                           /\ turn_log[j].cache_idx = -1

\* a block request failed at the third turn, after two questions served from
\* the cache, and two more turns were taken
C8_Witness ==
    /\ Len(turn_log) >= 5
    /\ turn_log[2].source = "block_cache"
    /\ FailedBlockRequest(3)
    /\ turn_log[3].cf_invoked
    /\ turn_log[5].answered

-----------------------------------------------------------------------------
(* C9 *)

\* C9: the counterfactual step is invoked in a turn exactly when the main
\* question of the turn was generated in a kickstart phase, the orthogonal
\* question of a failed block request included; it is never invoked in an
\* adaptive turn, the adaptive turns that fell back to an orthogonal question
\* included.
C9_CounterfactualIffKickstart ==
    /\ \A i \in Turns :
          /\ turn_log[i].answered =>
                (turn_log[i].cf_invoked <=> turn_log[i].phase \in KickstartPhases)
          /\ turn_log[i].phase \in AdaptivePhases =>
                (~turn_log[i].cf_invoked /\ ~turn_log[i].cf_asked)
          /\ turn_log[i].cf_asked => turn_log[i].cf_invoked
    /\ pc = "await_cf" => turn_log[Len(turn_log)].phase \in KickstartPhases

\* the orthogonal question of a failed block request was followed by the
\* counterfactual question, the orthogonal question of a failed single
\* request was not
C9_Witness ==
    \E i, j \in Turns :
        /\ FailedBlockRequest(i) /\ turn_log[i].cf_asked
        /\ FailedAdaptive(j) /\ turn_log[j].answered /\ ~turn_log[j].cf_invoked
        /\ turn_log[j].source = "orthogonal"

-----------------------------------------------------------------------------
(* C10 *)

\* the number of failed single requests in a row that ends with turn i
RECURSIVE FailuresInARow(_)
FailuresInARow(i) ==
    IF i < 1 THEN 0
    ELSE IF ~FailedAdaptive(i) THEN 0
    ELSE 1 + FailuresInARow(i - 1)

\* C10: the escalation warning is printed exactly at the failure that makes
\* 3 failed single requests in a row, and not again at the 4th, 5th, ...
\* failure of the same run of failures.
C10_WarningOncePerRun ==
    \A i \in Turns :
        turn_log[i].warning <=> (FailedAdaptive(i) /\ FailuresInARow(i) = 3)

-----------------------------------------------------------------------------
(* C11 *)

\* C11: on a configuration that is not exactly 3 criteria of 3 levels each,
\* the session puts no question to the user and records no response,
\* whichever phase it starts in and whatever the oracle replies; the
\* orthogonal generator returns no pair and leaves its counter unchanged.
C11_InvalidConfigurationIsFatal ==
    ~ValidConfiguration(criteria_levels) =>
        /\ session_history = << >>
        /\ \A i \in Turns : ~turn_log[i].presented
        /\ pc \in {"loop", "done"}
        /\ orthogonal_fallback_pair_idx_counter = 0
        /\ \A i \in Turns : turn_log[i].source = "orthogonal" =>
                                 (profile_a = None /\ profile_b = None)

\* the part of C11 on the generator alone
C11_GeneratorRefuses ==
    ~ValidConfiguration(criteria_levels) =>
        /\ orthogonal_fallback_pair_idx_counter = 0
        /\ \A i \in Turns : turn_log[i].source = "orthogonal" => ~turn_log[i].presented

-----------------------------------------------------------------------------
(* C12 *)

\* C12: on a valid configuration the k-th call of the orthogonal generator
\* returns the predefined pair at index (k-1) mod 9 and adds exactly 1 to the
\* counter, so that call k and call k+9 return the same pair.
C12_GeneratorCycle ==
    \A i \in DOMAIN returned :
        /\ << returned[i].a, returned[i].b >> = PredefinedPair(returned[i].before % 9)
        /\ returned[i].after = returned[i].before + 1
        /\ i < Len(returned) => returned[i + 1].before = returned[i].after
        /\ i = Len(returned) => orthogonal_fallback_pair_idx_counter = returned[i].after
        /\ \A j \in DOMAIN returned :
              j = i + 9 => (returned[j].a = returned[i].a /\ returned[j].b = returned[i].b)

\* a new engine was asked for 19 pairs: calls 1 and 10, and calls 10 and 19,
\* are 9 apart
C12_Witness ==
    /\ Len(returned) >= 19
    /\ returned[1].before = 0
    /\ returned[10].a = returned[19].a

-----------------------------------------------------------------------------
(* C13 *)

\* the beliefs of the store, reference levels included
BeliefKeys == { k \in (DOMAIN utilities) \X (0 .. 3) : k[2] \in DOMAIN utilities[k[1]] }

RECURSIVE TotalVariance(_)
TotalVariance(keys) ==
    IF keys = {} THEN 0
    ELSE LET k == CHOOSE x \in keys : TRUE
         IN  utilities[k[1]][k[2]].variance + TotalVariance(keys \ {k})

\* C13: the convergence monitor returns true if and only if the store holds
\* at least one belief and the arithmetic mean of the variances of all its
\* beliefs is strictly below 1.0; a mean of exactly 1.0 is not converged.
C13_ConvergedIffMeanBelowOne ==
    pc = "returned" =>
        LET n == Cardinality(BeliefKeys)
            total == TotalVariance(BeliefKeys)
        IN  /\ returned[1] <=> (n >= 1 /\ total < n * 1000000)
            /\ (n >= 1 /\ total = n * 1000000) => ~returned[1]

\* the monitor answered on a store of 9 beliefs, one of them at variance 5.0,
\* whose mean variance is exactly 1.0
C13_Witness ==
    /\ pc = "returned"
    /\ Cardinality(BeliefKeys) = 9
    /\ TotalVariance(BeliefKeys) = 9000000
    /\ \E k \in BeliefKeys : utilities[k[1]][k[2]].variance = 5000000
    /\ returned = << FALSE >>

-----------------------------------------------------------------------------
(* C14 *)

\* C14: the alternative index of a counterfactual question on a 3-level
\* criterion is 1 for the original index 0, 2 for 1 and 1 for 2: in range,
\* different from the original index and never the reference index 0; the
\* first-differing-index fallback is taken only when the table result is
\* out of range or equal to the original index, which does not happen here.
C14_AlternativeIndex ==
    pc = "await_cf" =>
        /\ ~cf_plan.skip
        /\ criteria_levels[cf_plan.crit] = 3
        /\ cf_plan.original \in 0 .. 2
        /\ cf_plan.original = 0 => cf_plan.improved = 1
        /\ cf_plan.original = 1 => cf_plan.improved = 2
        /\ cf_plan.original = 2 => cf_plan.improved = 1
        /\ cf_plan.improved \in 1 .. 2
        /\ cf_plan.improved # cf_plan.original
        /\ cf_plan.improved # FirstOtherIndex(cf_plan.original, 3)
                => cf_plan.original \in {1, 2}

\* a counterfactual question on a level of index 2 is on display
C14_Witness ==
    /\ pc = "await_cf"
    /\ cf_plan.original = 2
    /\ cf_plan.improved = 1

-----------------------------------------------------------------------------
(* C15 *)

\* the session started in the orthogonal kickstart with every belief at
\* mean 0, variance 10, and option A was chosen in the main questions so far
AlwaysOptionA ==
    /\ turn_log # << >>
    /\ turn_log[1].phase = "PYTHON_ORTHOGONAL_CF"
    /\ \A c \in DOMAIN start_utilities : \A l \in DOMAIN start_utilities[c] :
          start_utilities[c][l] = [mean |-> 0, variance |-> 10000000]
    /\ \A i \in DOMAIN session_history : session_history[i][3] = 0

\* C15: 3 criteria of 3 levels, every belief starting at mean 0 and variance
\* 10, session started in the orthogonal kickstart, option A chosen in each
\* of the first 3 main questions: after the 3rd round the mean of the first
\* level of the first criterion is strictly greater than at the start,
\* whatever the counterfactual answers.
C15_FirstLevelGains ==
    (AlwaysOptionA /\ Len(turn_log) = 3 /\ turn_log[3].checked)
        => utilities[1][0].mean > start_utilities[1][0].mean

\* three rounds were completed that way, with a counterfactual answered
\* either way
C15_Witness ==
    /\ AlwaysOptionA
    /\ Len(turn_log) = 3
    /\ turn_log[3].checked
    /\ turn_log[1].cf_asked /\ turn_log[2].cf_asked /\ turn_log[3].cf_asked
    /\ utilities[1][0].mean = 6

-----------------------------------------------------------------------------
(* C16 *)

\* every profile of every record of the history holds reference levels only
OnlyReferenceLevels(history) ==
    \A i \in DOMAIN history : \A side \in 1 .. 2 : \A c \in DOMAIN history[i][side] :
        history[i][side][c] = 0

\* the long-term profile is as it was loaded, in memory and in its file
ProfileAsLoaded ==
    /\ user_profile = load(loaded_file)
    /\ profile_file = loaded_file
    /\ saves = 0

\* C16: when every profile of every record of the session history holds
\* reference levels only, reconciliation is skipped: the inference
\* collaborator is not invoked and the long-term profile, in memory and
\* persisted, is exactly unchanged.
C16_NoEstimableParameterSkips ==
    (app_pc = "complete" /\ OnlyReferenceLevels(session_history))
        => (inference_calls = 0 /\ ProfileAsLoaded)

-----------------------------------------------------------------------------
(* C17 *)

\* the reconciliation step that ends on the missing collaborator or on a
\* failed sampling
FailedReconciliation ==
    /\ app_pc = "reconcile"
    /\ app_pc' = "complete"
    /\ returned' \in { << "pymc_not_installed" >>, << "sampling_failed" >> }

\* C17: when the inference collaborator is unavailable or the sampling
\* fails, reconciliation ends without error and leaves the long-term profile
\* unchanged (no entry modified, nothing persisted); the in-session beliefs
\* and the delivered recommendation are unaffected.
C17_FailedInferenceLeavesProfile ==
    [][FailedReconciliation =>
          /\ user_profile' = user_profile
          /\ profile_file' = profile_file
          /\ saves' = saves
          /\ utilities' = utilities
          /\ session_history' = session_history
          /\ recommendation_delivered' = recommendation_delivered]_vars

\* the sampling failed in the reconciliation of a session with answers; the
\* profile written by an earlier session is as it was loaded
C17_Witness ==
    /\ app_pc = "complete"
    /\ returned = << "sampling_failed" >>
    /\ inference_calls = 1
    /\ session_history # << >>
    /\ recommendation_delivered
    /\ loaded_file = StoredProfile
    /\ ProfileAsLoaded

-----------------------------------------------------------------------------
(* C18 *)

\* C18: during the whole elicitation loop the long-term profile is never
\* modified, in memory or on disk; it is written only by the reconciliation
\* that follows the loop.
C18_LoopNeverWritesProfile ==
    /\ pc # "done" => ProfileAsLoaded
    /\ app_pc # "complete" => ProfileAsLoaded

\* the loop has answered questions and moved the session beliefs while the
\* profile of an earlier session stays as loaded
C18_Witness ==
    /\ pc = "loop"
    /\ app_pc = "run"
    /\ question_count >= 2
    /\ session_history # << >>
    /\ utilities # start_utilities
    /\ loaded_file = StoredProfile
    /\ ProfileAsLoaded

-----------------------------------------------------------------------------
(* C19 *)

\* the iterations of the loop whose main question was answered
AnsweredTurns == { i \in DOMAIN turn_log : turn_log[i].answered }

\* a record of the history: the two profiles shown and the index chosen
IsResponseRecord(rec) ==
    /\ Len(rec) = 3
    /\ rec[1] # None
    /\ rec[2] # None
    /\ rec[3] \in { 0, 1 }

\* the step adds the answer to the main question on display at the end of
\* the history
AppendsAnswer ==
    /\ pc = "await_main"
    /\ \E idx \in { 0, 1 } :
          session_history' = Append(session_history, << profile_a, profile_b, idx >>)

\* C19: the session history is append-only and ordered: every answered main
\* question adds, at the end, one record of the pair shown and the index 0 or
\* 1 of the option chosen; counterfactual answers and turns whose question
\* was not presented add nothing, so the length is the number of answered
\* main questions.
C19_HistoryAppendOnly ==
    /\ [](/\ Len(session_history) = Cardinality(AnsweredTurns)
          /\ \A i \in DOMAIN session_history : IsResponseRecord(session_history[i])
          /\ \A i \in AnsweredTurns : turn_log[i].presented)
    /\ [][/\ session_history' # session_history => AppendsAnswer
          /\ pc = "await_main" /\ pc' # pc => AppendsAnswer
          /\ pc = "await_cf" => session_history' = session_history]_vars

\* two different answers are on record, in the order given, after a turn
\* that also asked a counterfactual question and before a turn whose
\* question was not presented
C19_Witness ==
    /\ pc = "done"
    /\ Len(session_history) >= 2
    /\ session_history[1] # session_history[2]
    /\ session_history[1][3] = 1
    /\ session_history[2][3] = 0
    /\ turn_log[1].cf_asked
    /\ ~turn_log[Len(turn_log)].presented
    /\ Len(turn_log) = Len(session_history) + 1

-----------------------------------------------------------------------------
(* C20 *)

\* C20: the reconciler runs at most once per session, only after the
\* elicitation loop has ended and the recommendation has been delivered,
\* never during the loop, and not at all when the session history is empty.
C20_ReconcilerOnceAfterLoop ==
    /\ reconciler_runs <= 1
    /\ pc # "done" => reconciler_runs = 0
    /\ reconciler_runs = 1 => /\ app_pc = "complete"
                              /\ recommendation_delivered
                              /\ session_history # << >>
    /\ (app_pc = "complete" /\ session_history = << >>) => reconciler_runs = 0

\* the run is complete: the reconciler ran once, on a history with answers,
\* after the recommendation
C20_Witness ==
    /\ app_pc = "complete"
    /\ pc = "done"
    /\ reconciler_runs = 1
    /\ recommendation_delivered
    /\ Len(session_history) >= 2
    /\ Len(turn_log) >= 2

-----------------------------------------------------------------------------
(* C21 *)

\* the criteria whose level is the same on both profiles of the question on
\* display and has a belief
SharedLevelCriteria ==
    { c \in DOMAIN utilities :
        /\ c \in DOMAIN profile_a
        /\ c \in DOMAIN profile_b
        /\ profile_a[c] = profile_b[c]
        /\ HasBelief(utilities, c, profile_a[c]) }

\* C21: a level whose value is identical in the chosen and the rejected
\* profile of a main question receives no update from the main-choice
\* updater: its mean and variance are the same after the answer as before.
C21_SharedLevelKeepsBelief ==
    [][(pc = "await_main" /\ pc' # pc) =>
          \A c \in SharedLevelCriteria :
              utilities'[c][profile_a[c]] = utilities[c][profile_a[c]]]_vars

-----------------------------------------------------------------------------
(* C22 *)

\* the engine is built and no turn of the loop has begun
SessionStart ==
    /\ pc \in { "select", "loop" }
    /\ question_count = 0
    /\ turn_log = << >>

\* C22: at the start of every session, whichever way the starting beliefs
\* are obtained (informed priors, default heuristic priors or long-term
\* profile priors), the belief of level 0 of every criterion is mean 0,
\* variance 0.1.
C22_ReferenceLevelStart ==
    SessionStart =>
        \A c \in DOMAIN utilities :
            HasBelief(utilities, c, 0) => utilities[c][0] = Belief(0, VarUnit \div 10)

-----------------------------------------------------------------------------
(* C23 *)

\* C23: at session start the long-term profile is read as the session's
\* priors: in the application flow that builds the engine, the starting
\* belief of every criterion-level is the stored (mean, variance) when the
\* profile has an entry for it, and the default (0, 10) when it has none.
C23_ProfileReadAsPriors ==
    (SessionStart /\ app_pc = "run") =>
        \A c \in DOMAIN utilities : \A l \in DOMAIN utilities[c] :
            utilities[c][l] = get_level_prior(user_profile, c, l)

-----------------------------------------------------------------------------
(* Two DecisionApp objects of one user id over the same profile file: each  *)
(* loads the file when it is built and writes it when its reconciliation    *)
(* succeeds                                                                 *)

InstanceIds == { 1, 2 }

\* one DecisionApp object: where it stands, its UserProfileHBM.data, and the
\* posteriors its reconciliation wrote
Instance(at, data, posteriors) == [at |-> at, data |-> data, posteriors |-> posteriors]

\* the criteria of the decision each object is run for: the two decisions
\* have the second criterion in common
DecisionCriteria == << { 1, 2 }, { 2, 3 } >>

\* summaries of the trace of object i: its parameters at mean 0.4 or -0.2
InstancePosteriors(i) ==
    { [k \in DecisionCriteria[i] \X { 1, 2 } |-> [mean |-> m, sd |-> 900]] : m \in { 4, -2 } }

\* UserProfileHBM.__init__ of object i: "self.data = self._load()"
LoadProfile(i) ==
    /\ pc = "instances"
    /\ instances[i].at = "start"
    /\ instances' = [instances EXCEPT ![i] = Instance("loaded", load(profile_file),
                                                      EmptyProfile)]
    /\ UNCHANGED << criteria_levels, utilities, orthogonal_fallback_pair_idx_counter,
                    initial_strategy, initial_block_size_cea,
                    MAX_PYTHON_ORTHO_CF_QUESTIONS, initial_questions_done,
                    cea_block_cache, cea_block_cache_idx, question_count,
                    session_history, r_idefix_consecutive_failures,
                    pc, profile_a, profile_b, perform_counterfactual_this_turn,
                    cf_plan, turn_log, app_vars, oracle_vars,
                    app_pc, user_profile, profile_file, recommendation_delivered,
                    reconciler_runs, inference_calls, saves, start_utilities,
                    loaded_file, returned >>

\* the reconciliation of object i: pm.sample fails and nothing is written, or
\* update_profile_with_posteriors changes the object's data and saves them
\* over the file
ReconcileInstance(i, sampling_succeeds, posteriors) ==
    /\ pc = "instances"
    /\ instances[i].at = "loaded"
    /\ IF sampling_succeeds
       THEN LET data == update_profile_with_posteriors(instances[i].data, posteriors)
            IN  /\ instances' = [instances EXCEPT ![i] = Instance("saved", data, posteriors)]
                /\ profile_file' = ProfileFile("json", data)
                /\ saves' = saves + 1
       ELSE /\ instances' = [instances EXCEPT ![i].at = "failed"]
            /\ UNCHANGED << profile_file, saves >>
    /\ UNCHANGED << criteria_levels, utilities, orthogonal_fallback_pair_idx_counter,
                    initial_strategy, initial_block_size_cea,
                    MAX_PYTHON_ORTHO_CF_QUESTIONS, initial_questions_done,
                    cea_block_cache, cea_block_cache_idx, question_count,
                    session_history, r_idefix_consecutive_failures,
                    pc, profile_a, profile_b, perform_counterfactual_this_turn,
                    cf_plan, turn_log, app_vars, oracle_vars,
                    app_pc, user_profile, recommendation_delivered,
                    reconciler_runs, inference_calls, start_utilities,
                    loaded_file, returned >>

InitInstances ==
    \E file \in ProfileFiles :
        /\ prior_quality_indicator = "heuristic_fallback"
        /\ avg_prior_variance = 10 * VarUnit
        /\ utilities = profile_priors(ValidCriteriaLevels)
        /\ initial_strategy = "PYTHON_ORTHOGONAL_CF"
        /\ initial_block_size_cea = DefaultBlockSize
        /\ pc = "instances"
        /\ EngineFields(ValidCriteriaLevels)
        /\ NoRequest
        /\ app_pc = "none"
        /\ profile_file = file
        /\ user_profile = EmptyProfile
        /\ recommendation_delivered = FALSE
        /\ reconciler_runs = 0
        /\ inference_calls = 0
        /\ saves = 0
        /\ start_utilities = utilities
        /\ loaded_file = file
        /\ returned = << >>
        /\ instances = [i \in InstanceIds |-> Instance("start", EmptyProfile, EmptyProfile)]

NextInstances ==
    \E i \in InstanceIds :
        \/ LoadProfile(i)
        \/ \E ok \in BOOLEAN, posteriors \in InstancePosteriors(i) :
              ReconcileInstance(i, ok, posteriors)

SpecInstances == InitInstances /\ [][NextInstances]_vars

-----------------------------------------------------------------------------
(* C24 *)

\* the objects whose reconciliation reported success
Writers == { i \in DOMAIN instances : instances[i].at = "saved" }

\* every object has ended its reconciliation
AllReconciled ==
    /\ pc = "instances"
    /\ \A i \in DOMAIN instances : instances[i].at \in { "saved", "failed" }

\* the entry update_profile_with_posteriors writes for a posterior
WrittenEntry(posterior) ==
    [mean_utility |-> posterior.mean, variance |-> posterior.sd * posterior.sd]

\* C24: persistence of a user's profile is single-writer: when two sessions
\* of one user id load the profile and reconcile with overlapping
\* load-to-save windows, the profile finally persisted holds the entries
\* written by every reconciliation that reported success.
C24_NoLostUpdate ==
    AllReconciled =>
        \A i \in Writers : \A k \in DOMAIN instances[i].posteriors :
            /\ k \in DOMAIN profile_file.data
            /\ \E j \in Writers :
                  /\ k \in DOMAIN instances[j].posteriors
                  /\ profile_file.data[k] = WrittenEntry(instances[j].posteriors[k])

-----------------------------------------------------------------------------
(* C25 *)

\* turn j was handled in the adaptive branch: no kickstart phase, no block
\* request, no read of the block cache, no counterfactual
HandledAdaptively(j) ==
    /\ turn_log[j].phase \in AdaptivePhases
    /\ turn_log[j].request = "modfed_single"
    /\ turn_log[j].source # "block_cache"
    /\ turn_log[j].cache_idx = -1
    /\ ~turn_log[j].perform_cf
    /\ ~turn_log[j].cf_invoked
    /\ ~turn_log[j].cf_asked

\* C25: phase progression is monotone: once a turn has been handled in the
\* adaptive phase, every later turn of the session is handled in the
\* adaptive branch; none is a kickstart turn, reads the block cache, issues
\* a block request or runs a counterfactual.
C25_PhaseMonotone ==
    \A i \in Turns : \A j \in Turns :
        (i < j /\ turn_log[i].phase \in AdaptivePhases) => HandledAdaptively(j)

\* a session that began with block turns has had three adaptive turns
C25_Witness ==
    /\ Len(turn_log) >= 4
    /\ turn_log[1].phase = "CEA_BLOCK_CF"
    /\ turn_log[1].source = "block_cache"
    /\ \E i \in Turns :
          /\ i + 2 \in Turns
          /\ turn_log[i].phase = "MODFED_ADAPTIVE"
          /\ turn_log[i + 2].phase = "MODFED_ADAPTIVE"
          /\ turn_log[i + 2].answered

-----------------------------------------------------------------------------
(* C26 *)

\* what the log holds for turn i when the convergence check ran exactly
\* after the updates of each answered turn and decided about the next
\* question
CheckedInOrder(i) ==
    LET turn == turn_log[i]
        last == i = Len(turn_log)
    IN  /\ turn.checked => turn.answered
        /\ ~turn.checked => ~turn.converged
        \* a question was generated after turn i
        /\ ~last => turn.answered /\ turn.checked /\ ~turn.converged /\ i < 8
        \* the answers of turn i are not all in
        /\ (last /\ pc \in { "await_main", "await_cf" }) => ~turn.checked
        \* turn i is over: the check saw the beliefs as the updates left them
        /\ (last /\ pc \in { "loop", "done" } /\ turn.answered) =>
               turn.checked /\ (turn.converged <=> check_convergence(utilities))
        /\ (last /\ pc = "loop") => turn.checked /\ ~turn.converged /\ i < 8
        /\ (last /\ pc = "done" /\ turn.checked) => turn.converged \/ i = 8

\* C26: the convergence check is evaluated exactly once per answered turn,
\* after the turn's main-choice update and after its counterfactual update
\* when one runs, and never before the first question; the next question is
\* generated if and only if the check was false and fewer than 8 turns have
\* been taken.
C26_CheckOncePerAnsweredTurn ==
    /\ \A i \in Turns : CheckedInOrder(i)
    /\ question_count = Len(turn_log)

\* a session stopped by the check before its 8th turn, after a turn with a
\* counterfactual answer; an earlier check was false
C26_Witness ==
    /\ pc = "done"
    /\ Len(turn_log) \in 2 .. 7
    /\ turn_log[Len(turn_log)].converged
    /\ turn_log[1].cf_asked
    /\ turn_log[1].checked
    /\ ~turn_log[1].converged

-----------------------------------------------------------------------------
(* C27 *)

\* the failed single requests up to turn i since the last single request
\* that returned a pair, the turns of the kickstart phases left out
RECURSIVE AdaptiveFailuresSinceSuccess(_)
AdaptiveFailuresSinceSuccess(i) ==
    IF i < 1 THEN 0
    ELSE IF turn_log[i].request # "modfed_single" THEN AdaptiveFailuresSinceSuccess(i - 1)
    ELSE IF turn_log[i].failed THEN 1 + AdaptiveFailuresSinceSuccess(i - 1)
    ELSE 0

\* C27: the consecutive-failure counter always equals the number of failed
\* adaptive requests since the last adaptive success or the session start: it
\* grows by exactly 1 on each adaptive failure, is set to 0 on each adaptive
\* success, and is left alone by kickstart turns, failed block requests
\* included.
C27_CounterCountsAdaptiveFailures ==
    /\ [](r_idefix_consecutive_failures = AdaptiveFailuresSinceSuccess(Len(turn_log)))
    /\ [][(pc = "loop" /\ Phase \in KickstartPhases) =>
              r_idefix_consecutive_failures' = r_idefix_consecutive_failures]_vars

\* after a failed block request in the kickstart, a single request failed,
\* the next returned a pair and the one after failed: the counter is at 1
C27_Witness ==
    /\ r_idefix_consecutive_failures = 1
    /\ \E k \in Turns : FailedBlockRequest(k)
    /\ \E i \in Turns :
          /\ i + 2 = Len(turn_log)
          /\ FailedAdaptive(i)
          /\ turn_log[i + 1].request = "modfed_single"
          /\ ~turn_log[i + 1].failed
          /\ FailedAdaptive(i + 2)

-----------------------------------------------------------------------------
(* C28 *)

\* the step generates a question: the log gets the record of a new turn
TurnTaken == Len(turn_log') = Len(turn_log) + 1

\* the cache as the turn finds it is empty or its cursor is at the end
CacheUsedUp == cea_block_cache = << >> \/ cea_block_cache_idx >= Len(cea_block_cache)

\* the turn serves the entry at position served (from 0) of the cache, as the
\* cache is after the turn, and moves the cursor behind it
ServesEntry(served) ==
    /\ served < Len(cea_block_cache')
    /\ profile_a' = JsonGet(cea_block_cache'[served + 1], "profile_a")
    /\ profile_b' = JsonGet(cea_block_cache'[served + 1], "profile_b")
    /\ cea_block_cache_idx' = served + 1

\* what a turn does to the block cache
BlockCacheDiscipline ==
    LET turn == turn_log'[Len(turn_log')]
        in_block_phase == Phase = "CEA_BLOCK_CF"
        fetched == turn.request = "cea_block" /\ ~turn.failed
    IN  /\ turn.request = "cea_block" <=> (in_block_phase /\ CacheUsedUp)
        /\ ~fetched => cea_block_cache' = cea_block_cache
        /\ turn.source = "block_cache" =>
               /\ in_block_phase
               /\ turn.cache_idx = IF fetched THEN 0 ELSE cea_block_cache_idx
               /\ ServesEntry(turn.cache_idx)
        /\ turn.source # "block_cache" =>
               /\ turn.cache_idx = -1
               /\ cea_block_cache_idx' = cea_block_cache_idx
        /\ fetched => turn.source = "block_cache"

\* C28: while the phase is the block kickstart, the j-th question served
\* after a successful block fetch is the j-th entry of that block, each entry
\* is served at most once, and a new block request is issued exactly when a
\* block turn starts with the cache empty or the cursor at its end; the cache
\* is never read in any other phase.
C28_BlockServedInOrder ==
    [][/\ TurnTaken => BlockCacheDiscipline
       /\ ~TurnTaken => /\ cea_block_cache' = cea_block_cache
                        /\ cea_block_cache_idx' = cea_block_cache_idx]_vars

\* a short block was served entry by entry, and the first entry of the block
\* fetched after it is on display
C28_Witness ==
    /\ pc = "await_main"
    /\ Len(turn_log) = ShortBlockLen + 1
    /\ \A i \in 1 .. ShortBlockLen :
          /\ turn_log[i].source = "block_cache"
          /\ turn_log[i].cache_idx = i - 1
    /\ turn_log[ShortBlockLen + 1].request = "cea_block"
    /\ turn_log[ShortBlockLen + 1].source = "block_cache"
    /\ turn_log[ShortBlockLen + 1].cache_idx = 0
    /\ cea_block_cache_idx = 1
    /\ profile_a = BlockPairs[1][1]

-----------------------------------------------------------------------------
(* C29 *)

\* the rows of the orthogonal array
ArrayRows == { L9_PROFILES[r] : r \in DOMAIN L9_PROFILES }

\* the profiles returned by the 9 calls that begin with call i
RowsReturnedFrom(i) ==
    { returned[j].a : j \in i .. (i + 8) } \cup { returned[j].b : j \in i .. (i + 8) }

\* C29: across any 9 consecutive calls of the orthogonal generator on a
\* valid 3 x 3 configuration, every one of the 9 rows of the orthogonal array
\* appears in at least one returned pair, as profile A or as profile B.
C29_NineCallsCoverArray ==
    /\ Cardinality(ArrayRows) = 9
    /\ \A i \in DOMAIN returned :
          (i + 8) \in DOMAIN returned => ArrayRows \subseteq RowsReturnedFrom(i)

\* 9 calls were made on an engine whose counter stood at 4: the window goes
\* round the end of the list of pairs
C29_Witness ==
    /\ ValidConfiguration(criteria_levels)
    /\ Len(returned) >= 9
    /\ returned[1].before = 4
    /\ RowsReturnedFrom(1) = ArrayRows

-----------------------------------------------------------------------------
(* The answer to a main question of the kickstart and the counterfactual    *)
(* that follows it, over belief stores that are complete, partial or empty  *)

\* belief stores of an engine built on informed priors: every variance the
\* same; one whose largest variance moves with the main update; graded
\* variances; the first criterion with its first level only; no level at all;
\* the priors generated from a reply of the language model that gives every
\* level the mean 3.0 with medium confidence
TargetStores ==
    { StoreOf(<< << 10000000, 10000000, 10000000 >>, << 10000000, 10000000, 10000000 >>,
                 << 10000000, 10000000, 10000000 >> >>),
      StoreOf(<< << 1000000, 9800000, 1000000 >>, << 1000000, 1000000, 1000000 >>,
                 << 10000000, 1000000, 1000000 >> >>),
      StoreOf(<< << 100000, 2000000, 3000000 >>, << 100000, 4000000, 500000 >>,
                 << 100000, 4000000, 2500000 >> >>),
      [c \in 1 .. 3 |-> [l \in (IF c = 1 THEN { 0 } ELSE 0 .. 2) |-> Belief(0, c * 1000000)]],
      [c \in 1 .. 3 |-> [l \in {} |-> Belief(0, 0)]],
      generate_contextual_priors(ValidCriteriaLevels, UniformLLM(30, "medium")).priors }

\* the pairs on display: the third has the same level of the third criterion
\* on both profiles; the profiles of the last differ in the second criterion
\* only
TargetPairs ==
    { BlockPairs[1], BlockPairs[3], << << 0, 1, 0 >>, << 1, 2, 0 >> >>,
      << << 2, 2, 1 >>, << 1, 1, 2 >> >>, << << 0, 1, 1 >>, << 0, 2, 1 >> >> }

\* a decision whose first criterion has two levels
TwoLevelCriteriaLevels == << 2, 3, 3 >>

\* [criteria_levels, store]: the decisions and the belief stores the engine
\* is built with
TargetSettings ==
    { [criteria_levels |-> ValidCriteriaLevels, store |-> store] : store \in TargetStores }
    \cup { [criteria_levels |-> TwoLevelCriteriaLevels,
            store |-> generate_default_informed_priors(TwoLevelCriteriaLevels)] }

\* both profiles of the pair name levels the decision has
PairOfLevels(pair, cl) ==
    \A i \in 1 .. 2 : \A c \in DOMAIN cl : pair[i][c] \in 0 .. (cl[c] - 1)

\* the first turn of a block kickstart has served the only entry of the
\* block it fetched and waits for the answer
InitTarget ==
    \E setting \in TargetSettings, pair \in TargetPairs :
        LET store == setting.store
            reply == Ran({"design_block"}, None, None, TRUE, << EntryOf(pair) >>)
            res == request_R_design(store, reply, "cea_block")
        IN  /\ PairOfLevels(pair, setting.criteria_levels)
            /\ criteria_levels = setting.criteria_levels
            /\ utilities = store
            /\ orthogonal_fallback_pair_idx_counter = 0
            /\ initial_strategy = "CEA_BLOCK_CF"
            /\ initial_block_size_cea = DefaultBlockSize
            /\ MAX_PYTHON_ORTHO_CF_QUESTIONS = InitialMaxOrthoQuestions
            /\ initial_questions_done = 1
            /\ cea_block_cache = res.data
            /\ cea_block_cache_idx = 1
            /\ question_count = 1
            /\ session_history = << >>
            /\ r_idefix_consecutive_failures = 0
            /\ pc = "await_main"
            /\ profile_a = pair[1]
            /\ profile_b = pair[2]
            /\ perform_counterfactual_this_turn = PerformCounterfactual("block")
            /\ cf_plan = NoPlan
            /\ prior_quality_indicator = "llm_success_medium_confidence"
            /\ avg_prior_variance = (3 * VarUnit) \div 2
            /\ oracle_mode = "cea_block"
            /\ oracle_reply = reply
            /\ oracle_result = res
            /\ turn_log = << LogEntry("CEA_BLOCK_CF", "cea_block", FALSE, "block_cache",
                                      0, -1, 0, PerformCounterfactual("block"), TRUE, FALSE) >>
            /\ Surroundings("none", MissingProfile)

NextTarget ==
    \/ \E chosen_idx_main \in {0, 1} : AnswerMain(chosen_idx_main)
    \/ \E user_switched \in BOOLEAN : AnswerCounterfactual(user_switched)

SpecTarget == InitTarget /\ [][NextTarget]_vars

-----------------------------------------------------------------------------
(* C30 *)

\* the profile the last main answer rejected
RejectedProfile ==
    LET last == session_history[Len(session_history)]
    IN  IF last[3] = 0 THEN last[2] ELSE last[1]

\* the criteria whose level on the rejected profile has a belief
CriteriaWithBelief ==
    { c \in DOMAIN utilities : HasBelief(utilities, c, RejectedProfile[c]) }

\* the variance the level of criterion c on the rejected profile has now
RejectedVariance(c) == utilities[c][RejectedProfile[c]].variance

-----------------------------------------------------------------------------
(* C31 *)

\* the belief the rule of the counterfactual gives the improved level
ImprovedAfter(b, switched) ==
    IF switched
    THEN Belief(Min(20, b.mean + 5), Max(10000, Scaled(b.variance, 6, 10)))
    ELSE Belief(Max(-20, b.mean - 2), Max(10000, Scaled(b.variance, 7, 10)))

\* the belief the rule of the counterfactual gives the original level
OriginalAfter(b, switched) ==
    IF switched
    THEN Belief(Max(-20, b.mean - 3), Max(10000, Scaled(b.variance, 8, 10)))
    ELSE Belief(Max(-20, b.mean - 1), b.variance)

\* the belief brought back to mean in [-2, 2] and variance >= 0.01
Reclamped(b) == Belief(Max(-20, Min(20, b.mean)), Max(10000, b.variance))

\* the step is the answer to a counterfactual question
CounterfactualAnswered == pc = "await_cf" /\ pc' # pc

\* C31: a counterfactual that is not skipped updates the two levels of the
\* targeted criterion exactly by the rule (switched: improved mean
\* min(2, mean + 0.5), variance max(0.01, 0.6 variance), original mean
\* max(-2, mean - 0.3), variance max(0.01, 0.8 variance); not switched:
\* improved mean max(-2, mean - 0.2), variance max(0.01, 0.7 variance),
\* original mean max(-2, mean - 0.1), variance unchanged); every other belief
\* is unchanged but for the clamp to mean in [-2, 2] and variance >= 0.01.
C31_CounterfactualRule ==
    [][CounterfactualAnswered =>
          \E switched \in BOOLEAN :
              \A c \in DOMAIN utilities : \A l \in DOMAIN utilities[c] :
                  utilities'[c][l] =
                      IF c = cf_plan.crit /\ l = cf_plan.improved
                      THEN ImprovedAfter(utilities[c][l], switched)
                      ELSE IF c = cf_plan.crit /\ l = cf_plan.original
                      THEN OriginalAfter(utilities[c][l], switched)
                      ELSE Reclamped(utilities[c][l])]_vars

-----------------------------------------------------------------------------
(* C33 *)

\* the beliefs the main-choice rule leaves: +0.2 and 0.9 of the variance for
\* the levels of the chosen profile, -0.1 and 0.95 of the variance for the
\* levels of the rejected profile that the chosen profile does not have
MainUpdated(u, chosen, rejected) ==
    [c \in DOMAIN u |->
        [l \in DOMAIN u[c] |->
            IF chosen[c] = l
            THEN Belief(u[c][l].mean + 2, Max(10000, Scaled(u[c][l].variance, 9, 10)))
            ELSE IF rejected[c] = l
            THEN Belief(u[c][l].mean - 1, Max(10000, Scaled(u[c][l].variance, 19, 20)))
            ELSE u[c][l]]]

\* the step is the answer to a main question
MainAnswered == pc = "await_main" /\ pc' # pc

\* the index of the option the step chose, as the history records it
ChosenIndex == session_history'[Len(session_history')][3]

ChosenOnDisplay == IF ChosenIndex = 0 THEN profile_a ELSE profile_b

RejectedOnDisplay == IF ChosenIndex = 0 THEN profile_b ELSE profile_a

\* C33: the main-choice updater changes exactly these beliefs: each level on
\* the chosen profile gets mean + 0.2 and variance max(0.01, 0.9 variance);
\* each level on the rejected profile whose criterion has another level on
\* the chosen profile gets mean - 0.1 and variance max(0.01, 0.95 variance);
\* the beliefs of levels on neither profile are unchanged.
C33_MainChoiceRule ==
    [][MainAnswered =>
          /\ Len(session_history') = Len(session_history) + 1
          /\ utilities' = MainUpdated(utilities, ChosenOnDisplay, RejectedOnDisplay)]_vars

\* the first answer chose option B of a pair that has the same level of some
\* criterion on both profiles: that level gained, a level only option A has
\* lost, and a level on neither profile is as the engine was built with
C33_Witness ==
    /\ Len(session_history) = 1
    /\ pc = "await_cf"
    /\ \A c \in DOMAIN utilities : DOMAIN utilities[c] = 0 .. 2
    /\ session_history[1][3] = 1
    /\ \E c \in DOMAIN utilities :
           /\ session_history[1][1][c] = session_history[1][2][c]
           /\ utilities[c][session_history[1][1][c]].mean
                  = start_utilities[c][session_history[1][1][c]].mean + 2
    /\ \E d \in DOMAIN utilities :
           /\ session_history[1][1][d] # session_history[1][2][d]
           /\ utilities[d][session_history[1][1][d]].mean
                  = start_utilities[d][session_history[1][1][d]].mean - 1
           /\ \E l \in DOMAIN utilities[d] :
                  /\ l \notin { session_history[1][1][d], session_history[1][2][d] }
                  /\ utilities[d][l] = start_utilities[d][l]

-----------------------------------------------------------------------------
(* C32 *)

\* the counterfactual method returns before its prompt: it finds no target,
\* the target criterion has not exactly 3 levels, no level index other than
\* the original one exists, or the rejected profile with the improved level
\* is the chosen profile
SkipCase(u, cl, chosen, rejected) ==
    LET target == find_most_uncertain_level(u, cl, rejected)
    IN  \/ target.crit = 0
        \/ cl[target.crit] # 3
        \/ improved_level_index(target.idx, cl[target.crit]) = target.idx
        \/ [rejected EXCEPT ![target.crit] =
                improved_level_index(target.idx, cl[target.crit])] = chosen

\* the step answers a main question of a turn that has the counterfactual
\* and the counterfactual method returns before its prompt
CounterfactualSkipped ==
    /\ MainAnswered
    /\ perform_counterfactual_this_turn
    /\ Len(session_history') = Len(session_history) + 1
    /\ SkipCase(MainUpdated(utilities, ChosenOnDisplay, RejectedOnDisplay), criteria_levels,
                ChosenOnDisplay, RejectedOnDisplay)

\* C32: a skipped counterfactual step is a no-op: no counterfactual answer
\* is requested, the beliefs are those of the main update, the history has
\* the record of the main question and nothing more, and the turn goes on
\* to its convergence check.
C32_SkippedCounterfactualNoOp ==
    [][CounterfactualSkipped =>
          /\ pc' \in { "loop", "done" }
          /\ cf_plan' = NoPlan
          /\ utilities' = MainUpdated(utilities, ChosenOnDisplay, RejectedOnDisplay)
          /\ session_history' = Append(session_history,
                                       << profile_a, profile_b, ChosenIndex >>)
          /\ turn_log'[Len(turn_log')].cf_invoked
          /\ ~turn_log'[Len(turn_log')].cf_asked
          /\ turn_log'[Len(turn_log')].checked
          /\ turn_log'[Len(turn_log')].converged = check_convergence(utilities')]_vars

\* option B of the pair that differs in the second criterion only was
\* chosen on a complete store: the rejected profile with the level improved
\* is the chosen one, nothing was asked and the beliefs are those of the
\* main update
C32_Witness ==
    /\ Len(session_history) = 1
    /\ session_history[1] = << << 0, 1, 1 >>, << 0, 2, 1 >>, 1 >>
    /\ criteria_levels = ValidCriteriaLevels
    /\ \A c \in DOMAIN utilities : DOMAIN utilities[c] = 0 .. 2
    /\ SkipCase(utilities, criteria_levels, << 0, 2, 1 >>, << 0, 1, 1 >>)
    /\ find_most_uncertain_level(utilities, criteria_levels, << 0, 1, 1 >>).crit = 2
    /\ turn_log[1].cf_invoked
    /\ ~turn_log[1].cf_asked
    /\ turn_log[1].checked
    /\ pc \in { "loop", "done" }
    /\ utilities = MainUpdated(start_utilities, << 0, 2, 1 >>, << 0, 1, 1 >>)

-----------------------------------------------------------------------------
(* The names of the parameters of run_mcmc_model_in_background and their    *)
(* parsing by UserProfileHBM.update_profile_with_posteriors                 *)

\* A name is a sequence of pieces: the piece "_" is one underscore character,
\* every other piece is a run of characters without an underscore.  The
\* decisions of the other specifications name their criteria and levels by
\* numbers, which hold no underscore.
Underscore == "_"

\* f"{crit}_{level}"
ParamName(crit, level) == crit \o << Underscore >> \o level

\* param_name.split('_', 1): the parts before and after the first underscore,
\* the name alone when it has no underscore
SplitOnce(name) ==
    LET at == { i \in DOMAIN name : name[i] = Underscore }
    IN  IF at = {} THEN << name >>
        ELSE LET first == CHOOSE i \in at : \A j \in at : i <= j
             IN  << SubSeq(name, 1, first - 1), SubSeq(name, first + 1, Len(name)) >>

\* criteria_with_levels is the sequence, in the order of the dictionary, of
\* [name, levels]; param_names lists, for each criterion of two levels or
\* more, the names built for its levels but the first
RECURSIVE named_param_names(_)
named_param_names(cwl) ==
    IF cwl = << >> THEN << >>
    ELSE LET levels == Head(cwl).levels
         IN  (IF Len(levels) < 2 THEN << >>
              ELSE [i \in 1 .. (Len(levels) - 1) |-> ParamName(Head(cwl).name, levels[i + 1])])
             \o named_param_names(Tail(cwl))

\* the dictionary posteriors: parameter i of the list gets the summary of
\* beta[i]; a name listed twice keeps the summary assigned last
named_posteriors(names, summary) ==
    [n \in { names[i] : i \in DOMAIN names } |->
        summary[CHOOSE i \in DOMAIN names :
                    names[i] = n /\ \A j \in DOMAIN names : names[j] = n => j <= i]]

\* UserProfileHBM.update_profile_with_posteriors on data keyed by
\* << criterion name, level name >>
update_named_profile(data, posteriors) ==
    LET parsed == { n \in DOMAIN posteriors : Len(SplitOnce(n)) = 2 }
    IN  [k \in DOMAIN data \cup { SplitOnce(n) : n \in parsed } |->
            IF \E n \in parsed : SplitOnce(n) = k
            THEN LET n == CHOOSE m \in parsed : SplitOnce(m) = k
                 IN  [mean_utility |-> posteriors[n].mean,
                      variance |-> posteriors[n].sd * posteriors[n].sd]
            ELSE data[k]]

\* names of criteria and of levels
CriterionNames == { << "cost" >>, << "cost", "_", "per" >>, << "size" >> }

LevelNames == { << "low" >>, << "per", "_", "low" >>, << "high" >> }

\* the lists of 2 or 3 different level names
LevelLists ==
    { s \in [1 .. 2 -> LevelNames] \cup [1 .. 3 -> LevelNames] :
        \A i, j \in DOMAIN s : i # j => s[i] # s[j] }

\* the decisions of 2 criteria of different names
NamedDecisions ==
    { d \in { << [name |-> c1, levels |-> l1], [name |-> c2, levels |-> l2] >> :
                 c1 \in CriterionNames, c2 \in CriterionNames, l1 \in LevelLists,
                 l2 \in LevelLists } : d[1].name # d[2].name }

\* the summary of the trace: beta[i] has mean base + i and sd i / 10
SummaryOf(base, n) == [i \in 1 .. n |-> [mean |-> base + i, sd |-> 100 * i]]

\* the session of a decision has returned with one answer, to the question
\* between the first and the second level of every criterion, and the
\* profile is empty
InitNames ==
    \E cwl \in NamedDecisions :
        /\ prior_quality_indicator = "heuristic_fallback"
        /\ avg_prior_variance = 10 * VarUnit
        /\ utilities = profile_priors(<< Len(cwl[1].levels), Len(cwl[2].levels) >>)
        /\ initial_strategy = "PYTHON_ORTHOGONAL_CF"
        /\ initial_block_size_cea = DefaultBlockSize
        /\ pc = "names"
        /\ criteria_levels = cwl
        /\ orthogonal_fallback_pair_idx_counter = 1
        /\ MAX_PYTHON_ORTHO_CF_QUESTIONS = InitialMaxOrthoQuestions
        /\ initial_questions_done = 1
        /\ cea_block_cache = << >>
        /\ cea_block_cache_idx = 0
        /\ question_count = 1
        /\ session_history = << << [c \in 1 .. 2 |-> cwl[c].levels[1]],
                                   [c \in 1 .. 2 |-> cwl[c].levels[2]], 0 >> >>
        /\ r_idefix_consecutive_failures = 0
        /\ profile_a = session_history[1][1]
        /\ profile_b = session_history[1][2]
        /\ perform_counterfactual_this_turn = FALSE
        /\ cf_plan = NoPlan
        /\ turn_log = << >>
        /\ NoRequest
        /\ Surroundings("reconcile", MissingProfile)

\* run_mcmc_model_in_background with pymc installed: pm.sample raises and
\* nothing is written, or the posteriors are written to the profile
ReconcileNames(sampling_succeeds, base) ==
    /\ pc = "names"
    /\ app_pc = "reconcile"
    /\ LET names == named_param_names(criteria_levels)
           summary == SummaryOf(base, Len(names))
           posteriors == named_posteriors(names, summary)
           data == update_named_profile(user_profile, posteriors)
       IN  IF sampling_succeeds
           THEN /\ user_profile' = data
                /\ profile_file' = ProfileFile("json", data)
                /\ saves' = saves + 1
                /\ returned' = << [message |-> "profile_updated", summary |-> summary] >>
           ELSE /\ returned' = << [message |-> "sampling_failed", summary |-> << >>] >>
                /\ UNCHANGED << user_profile, profile_file, saves >>
    /\ reconciler_runs' = reconciler_runs + 1
    /\ inference_calls' = inference_calls + 1
    /\ app_pc' = "complete"
    /\ UNCHANGED << criteria_levels, utilities, orthogonal_fallback_pair_idx_counter,
                    initial_strategy, initial_block_size_cea,
                    MAX_PYTHON_ORTHO_CF_QUESTIONS, initial_questions_done,
                    cea_block_cache, cea_block_cache_idx, question_count,
                    session_history, r_idefix_consecutive_failures,
                    pc, profile_a, profile_b, perform_counterfactual_this_turn,
                    cf_plan, turn_log, app_vars, oracle_vars,
                    recommendation_delivered, start_utilities, loaded_file, instances >>

NextNames == \E sampling_succeeds \in BOOLEAN, base \in { 0, 5 } : ReconcileNames(sampling_succeeds, base)

SpecNames == InitNames /\ [][NextNames]_vars

-----------------------------------------------------------------------------
(* C34 *)

\* the position in param_names of the parameter built for level li of
\* criterion ci
ParamIndex(cwl, ci, li) ==
    Len(named_param_names(SubSeq(cwl, 1, ci - 1))) + (li - 1)

\* the criteria and levels a parameter is built for
BuiltFor(cwl) ==
    { k \in (DOMAIN cwl) \X (2 .. 3) : Len(cwl[k[1]].levels) >= 2 /\ k[2] <= Len(cwl[k[1]].levels) }

\* the reconciliation wrote the posteriors to the profile
ReconciledNames == pc = "names" /\ app_pc = "complete" /\ returned[1].message = "profile_updated"

\* C34: after a successful reconciliation, reading the profile at criterion
\* c and non-reference level l returns the posterior mean and the square of
\* the posterior sd of the parameter built for (c, l), whatever the names,
\* names holding the underscore included, and two different (criterion,
\* level) pairs are not written to the same entry.
C34_WriteReadRoundTrip ==
    ReconciledNames =>
        /\ \A k \in BuiltFor(criteria_levels) :
              get_level_prior(user_profile, criteria_levels[k[1]].name,
                              criteria_levels[k[1]].levels[k[2]])
                 = LET stats == returned[1].summary[ParamIndex(criteria_levels, k[1], k[2])]
                   IN  Belief(stats.mean, stats.sd * stats.sd)
        /\ Cardinality(DOMAIN user_profile) = Cardinality(BuiltFor(criteria_levels))

-----------------------------------------------------------------------------
(* The inference request of run_mcmc_model_in_background, for two sessions  *)
(* of the same decision and the same long-term profile side by side         *)

\* the request handed to the sampler: the prior mean and the prior variance
\* max(var, 1e-6) whose root is the prior sd of each parameter, the design
\* matrix X[question][option][parameter] and the choice vector Y
inference_request(data, history, cl) ==
    [prior_means |-> [k \in param_names(cl) |-> get_level_prior(data, k[1], k[2]).mean],
     prior_vars |-> [k \in param_names(cl) |->
                        Max(get_level_prior(data, k[1], k[2]).variance, 1)],
     X |-> [i \in DOMAIN history |->
              [o \in 1 .. 2 |->
                  [k \in param_names(cl) |->
                      IF k[1] \in DOMAIN history[i][o] /\ history[i][o][k[1]] = k[2]
                      THEN 1 ELSE 0]]],
     Y |-> [i \in DOMAIN history |-> history[i][3]]]

\* the application handing the beliefs of the session to the reconciler as
\* its priors
ReconcilerRequest_PriorsFromSession(profile, engine, cl) ==
    LET session_data == [k \in param_names(cl) |->
                            [mean_utility |-> engine.utilities[k[1]][k[2]].mean,
                             variance |-> engine.utilities[k[1]][k[2]].variance]]
    IN  inference_request(session_data, engine.session_history, cl)

\* "run_mcmc_model_in_background(self.user_profile, session_history,
\* criteria_with_levels)": the request built for the session of an engine
ReconcilerRequest(profile, engine, cl) ==
    inference_request(profile, engine.session_history, cl)

SessionIds == { 1, 2 }

\* questions of one session
MaxSessionTurns == 2

NoRequestYet == << >>

\* the state of one session: its beliefs, its history and, once the
\* reconciler was called for it, the request it built
SessionOf(u, history, request) ==
    [utilities |-> u, session_history |-> history, request |-> request]

\* the informed priors the engines are built with
SessionPriors ==
    { generate_contextual_priors(ValidCriteriaLevels, llm).priors : llm \in LLMReplies }

\* one iteration of the loop of session i in the block kickstart, on the
\* next pair of the block: the main answer, its record and its update, and
\* the counterfactual with its answer when it is asked
SessionTurn(i, chosen_idx_main, user_switched) ==
    /\ pc = "sessions"
    /\ instances[i].request = NoRequestYet
    /\ Len(instances[i].session_history) < MaxSessionTurns
    /\ \/ instances[i].session_history = << >>
       \/ ContinueLoop(check_convergence(instances[i].utilities),
                       Len(instances[i].session_history))
    /\ LET pair == BlockPairs[Len(instances[i].session_history) + 1]
           chosen == pair[chosen_idx_main + 1]
           rejected == pair[2 - chosen_idx_main]
           u1 == update_utilities_simplified(instances[i].utilities, chosen, rejected)
           plan == counterfactual_plan(u1, criteria_levels, chosen, rejected)
           u2 == IF plan.skip THEN u1
                 ELSE update_utilities_from_counterfactual(u1, plan.crit, plan.original,
                                                           plan.improved, user_switched)
       IN  instances' = [instances EXCEPT
               ![i] = SessionOf(u2, RecordResponse(instances[i].session_history,
                                                   pair[1], pair[2], chosen_idx_main),
                                NoRequestYet)]
    /\ UNCHANGED << criteria_levels, utilities, orthogonal_fallback_pair_idx_counter,
                    initial_strategy, initial_block_size_cea,
                    MAX_PYTHON_ORTHO_CF_QUESTIONS, initial_questions_done,
                    cea_block_cache, cea_block_cache_idx, question_count,
                    session_history, r_idefix_consecutive_failures,
                    pc, profile_a, profile_b, perform_counterfactual_this_turn,
                    cf_plan, turn_log, app_vars, oracle_vars,
                    app_pc, user_profile, profile_file, recommendation_delivered,
                    reconciler_runs, inference_calls, saves, start_utilities,
                    loaded_file, returned >>

\* the reconciler is called for session i and builds its request
BuildRequest(i) ==
    /\ pc = "sessions"
    /\ instances[i].request = NoRequestYet
    /\ HasSessionData(instances[i].session_history)
    /\ instances' = [instances EXCEPT
           ![i].request = ReconcilerRequest(user_profile, instances[i], criteria_levels)]
    /\ UNCHANGED << criteria_levels, utilities, orthogonal_fallback_pair_idx_counter,
                    initial_strategy, initial_block_size_cea,
                    MAX_PYTHON_ORTHO_CF_QUESTIONS, initial_questions_done,
                    cea_block_cache, cea_block_cache_idx, question_count,
                    session_history, r_idefix_consecutive_failures,
                    pc, profile_a, profile_b, perform_counterfactual_this_turn,
                    cf_plan, turn_log, app_vars, oracle_vars,
                    app_pc, user_profile, profile_file, recommendation_delivered,
                    reconciler_runs, inference_calls, saves, start_utilities,
                    loaded_file, returned >>

InitSessions ==
    \E file \in { MissingProfile, StoredProfile }, first \in SessionPriors, second \in SessionPriors :
        /\ prior_quality_indicator = "llm_success_medium_confidence"
        /\ avg_prior_variance = (3 * VarUnit) \div 2
        /\ utilities = first
        /\ initial_strategy = "CEA_BLOCK_CF"
        /\ initial_block_size_cea = DefaultBlockSize
        /\ pc = "sessions"
        /\ EngineFields(ValidCriteriaLevels)
        /\ NoRequest
        /\ app_pc = "none"
        /\ profile_file = file
        /\ user_profile = load(file)
        /\ recommendation_delivered = FALSE
        /\ reconciler_runs = 0
        /\ inference_calls = 0
        /\ saves = 0
        /\ start_utilities = utilities
        /\ loaded_file = file
        /\ returned = << >>
        /\ instances = [i \in SessionIds |->
                           SessionOf(IF i = 1 THEN first ELSE second, << >>, NoRequestYet)]

NextSessions ==
    \E i \in SessionIds :
        \/ \E chosen_idx_main \in { 0, 1 }, user_switched \in BOOLEAN :
              SessionTurn(i, chosen_idx_main, user_switched)
        \/ BuildRequest(i)

SpecSessions == InitSessions /\ [][NextSessions]_vars

-----------------------------------------------------------------------------
(* C35 *)

\* C35: the inference request depends only on the session history, the
\* definitions of the criteria and levels and the long-term profile: two
\* sessions of the same decision and profile with the same history build
\* the same prior vectors, design matrices and choice vectors, whatever
\* their in-session beliefs.
C35_RequestIgnoresBeliefs ==
    \A i, j \in SessionIds :
        (/\ instances[i].request # NoRequestYet
         /\ instances[j].request # NoRequestYet
         /\ instances[i].session_history = instances[j].session_history)
        => instances[i].request = instances[j].request

\* two sessions gave the same two answers and ended with different beliefs;
\* the request of both was built, from a profile that holds entries
C35_Witness ==
    /\ pc = "sessions"
    /\ user_profile # EmptyProfile
    /\ instances[1].request # NoRequestYet
    /\ instances[2].request # NoRequestYet
    /\ Len(instances[1].session_history) = 2
    /\ instances[1].session_history = instances[2].session_history
    /\ instances[1].utilities # instances[2].utilities
    /\ instances[1].request.prior_means[<< 1, 1 >>] = 5
    /\ instances[1].request.X[1][1][<< 1, 2 >>] = 0
    /\ instances[1].request.X[1][2][<< 1, 1 >>] = 1

-----------------------------------------------------------------------------
(* C36 *)

\* the sum of the variances of the beliefs of a store
RECURSIVE SumOfVariances(_, _)
SumOfVariances(u, keys) ==
    IF keys = {} THEN 0
    ELSE LET k == CHOOSE x \in keys : TRUE
         IN  u[k[1]][k[2]].variance + SumOfVariances(u, keys \ { k })

\* every belief of the store has a variance of 0.01 or more
AllAtFloorOrAbove == \A k \in BeliefKeys : utilities[k[1]][k[2]].variance >= 10000

\* C36: no belief update increases a variance: a belief whose variance is
\* 0.01 or more has, after any main or counterfactual update, a variance
\* that is not larger, so that the mean variance over all beliefs does not
\* increase from turn to turn.
C36_VarianceNeverIncreases ==
    [][/\ \A k \in BeliefKeys :
             utilities[k[1]][k[2]].variance >= 10000
                => /\ HasBelief(utilities', k[1], k[2])
                   /\ utilities'[k[1]][k[2]].variance <= utilities[k[1]][k[2]].variance
       /\ AllAtFloorOrAbove
             => SumOfVariances(utilities', BeliefKeys) <= SumOfVariances(utilities, BeliefKeys)]_vars

\* a counterfactual was answered in the first turn: the variance of one
\* belief is lower than at the start, that of another is as at the start,
\* and none is higher
C36_Witness ==
    /\ Len(turn_log) >= 1
    /\ turn_log[1].cf_asked
    /\ turn_log[1].checked
    /\ \A k \in BeliefKeys : start_utilities[k[1]][k[2]].variance >= 10000
    /\ \E k \in BeliefKeys :
           utilities[k[1]][k[2]].variance < start_utilities[k[1]][k[2]].variance
    /\ \E k \in BeliefKeys :
           utilities[k[1]][k[2]].variance = start_utilities[k[1]][k[2]].variance
    /\ SumOfVariances(utilities, BeliefKeys) < SumOfVariances(start_utilities, BeliefKeys)

-----------------------------------------------------------------------------
(* Sessions that start with a mean variance below the convergence threshold *)

\* replies of the language model that give confident priors: every level
\* with high confidence, at two means, and one level of medium confidence
\* among levels of high confidence
StrongLLMReplies ==
    { UniformLLM(20, "high"),
      UniformLLM(-5, "high"),
      [k \in NonReference(ValidCriteriaLevels) |->
          IF k = << 1, 1 >> THEN [mean |-> 10, confidence |-> "medium"]
          ELSE [mean |-> 5, confidence |-> "high"]] }

\* informed priors an engine is built with: every variance 0.9, or the
\* variances 0.1, 0.5 and 2.3 in each criterion
StrongStores ==
    { StoreOf(<< << 900000, 900000, 900000 >>, << 900000, 900000, 900000 >>,
                 << 900000, 900000, 900000 >> >>),
      StoreOf(<< << 100000, 500000, 2300000 >>, << 100000, 500000, 2300000 >>,
                 << 100000, 500000, 2300000 >> >>) }

\* DecisionApp.run with confident priors generated and the strategy not
\* chosen yet
InitStrongApp ==
    \E llm \in StrongLLMReplies :
        LET generated == generate_contextual_priors(ValidCriteriaLevels, llm)
        IN  /\ prior_quality_indicator = generated.flag
            /\ avg_prior_variance = generated.avg
            /\ utilities = generated.priors
            /\ initial_strategy = "MODFED_DIRECT"
            /\ initial_block_size_cea = 0
            /\ pc = "select"
            /\ EngineFields(ValidCriteriaLevels)
            /\ NoRequest
            /\ Surroundings("run", StoredProfile)

\* an engine built on informed priors, for each strategy
InitStrongEngine ==
    \E strategy \in Strategies, store \in StrongStores :
        /\ prior_quality_indicator = "llm_success_high_confidence"
        /\ avg_prior_variance = VarUnit \div 2
        /\ utilities = store
        /\ initial_strategy = strategy
        /\ initial_block_size_cea = DefaultBlockSize
        /\ pc = "loop"
        /\ EngineFields(ValidCriteriaLevels)
        /\ NoRequest
        /\ Surroundings("none", MissingProfile)

InitStrong == InitStrongApp \/ InitStrongEngine

\* the user answers every prompt and every call returns
SpecStrong == InitStrong /\ [][Next]_vars /\ WF_vars(Next)

-----------------------------------------------------------------------------
(* C37 *)

\* the convergence monitor returns true on the beliefs the session starts with
ConvergedAtStart == check_convergence(start_utilities)

\* the first iteration put a question to the user
FirstQuestionShown == Len(turn_log) >= 1 /\ turn_log[1].presented

\* C37: a session that starts with a mean variance below 1.0 still asks one
\* main question and ends after exactly one answered question; so does
\* every session the selection rule starts in the direct adaptive strategy,
\* when a pair is generated.
C37_ConvergedAtStartOneQuestion ==
    /\ [](ConvergedAtStart =>
             /\ Len(session_history) <= 1
             /\ question_count <= 1
             /\ (SessionReturned /\ FirstQuestionShown) => Len(session_history) = 1)
    /\ []((app_pc # "none" /\ pc # "select" /\ initial_strategy = "MODFED_DIRECT")
             => ConvergedAtStart)
    /\ ((ConvergedAtStart /\ pc = "loop") ~> SessionReturned)

\* a session started by the selection rule in the direct adaptive strategy
\* has returned with one response, after one question and one convergence
\* check that was true
C37_Witness ==
    /\ ConvergedAtStart
    /\ app_pc # "none"
    /\ initial_strategy = "MODFED_DIRECT"
    /\ SessionReturned
    /\ Len(session_history) = 1
    /\ question_count = 1
    /\ Len(turn_log) = 1
    /\ turn_log[1].phase = "MODFED_DIRECT"
    /\ turn_log[1].answered
    /\ turn_log[1].converged

-----------------------------------------------------------------------------
(* C38 *)

\* the turns, up to turn i, that showed a pair of the orthogonal generator
OrthogonalTurnsUpTo(i) == { j \in 1 .. i : turn_log[j].source = "orthogonal" }

\* C38: in every turn, the turn of a failed block fetch included, the
\* orthogonal generator is invoked at most once and its counter advances by
\* at most 1, and the n-th orthogonal question shown is the predefined pair
\* (n - 1) mod 9: no pair is skipped.
C38_OneGeneratorCallPerTurn ==
    /\ orthogonal_fallback_pair_idx_counter <= Len(turn_log)
    /\ \A i \in DOMAIN turn_log :
          /\ turn_log[i].ortho_calls <= 1
          /\ turn_log[i].source = "orthogonal"
                => turn_log[i].ortho_idx % MAX_ORTHOGONAL_FALLBACK_TOTAL
                      = (Cardinality(OrthogonalTurnsUpTo(i)) - 1) % MAX_ORTHOGONAL_FALLBACK_TOTAL

-----------------------------------------------------------------------------
(* C39 *)

\* the profile gives every criterion one of its defined levels
CompleteProfile(profile, cl) ==
    /\ profile # None
    /\ DOMAIN profile = DOMAIN cl
    /\ \A c \in DOMAIN cl : profile[c] \in Levels(cl, c)

\* C39: on a valid 3 x 3 configuration every pair the generator returns, at
\* each of the 9 positions of its counter, is made of two complete profiles,
\* one defined level for each criterion, that differ in at least one
\* criterion.
C39_PairsCompleteAndDistinct ==
    ValidConfiguration(criteria_levels) =>
        \A j \in DOMAIN returned :
            /\ CompleteProfile(returned[j].a, criteria_levels)
            /\ CompleteProfile(returned[j].b, criteria_levels)
            /\ \E c \in DOMAIN criteria_levels : returned[j].a[c] # returned[j].b[c]

\* the generator was called at each of the 9 positions of its counter
C39_Witness ==
    /\ ValidConfiguration(criteria_levels)
    /\ { returned[j].before % MAX_ORTHOGONAL_FALLBACK_TOTAL : j \in DOMAIN returned } = 0 .. 8
    /\ \A j \in DOMAIN returned : returned[j].after = returned[j].before + 1

====
